---- MODULE Spec2Model ----
(***************************************************************************)
(* Traily browser extension: the content-ingestion pipeline                *)
(* (BackgroundService), the graph store (StorageManager) and the           *)
(* rate-limited analysis client (GeminiProcessor).                         *)
(*                                                                         *)
(* Numbers with a fraction are kept in thousandths (importance 1 is 1000,  *)
(* the step 0.5 is 500).  JavaScript strings are TLA+ strings; CharCodes   *)
(* gives the UTF-16 code units of the strings the model uses, because      *)
(* btoa works on them.                                                     *)
(***************************************************************************)
EXTENDS Integers, Sequences, FiniteSets, TLC

\* ------------------------------------------------------------------------
\* Strings
\* ------------------------------------------------------------------------

\* The code units of each string of the model ("nihon" stands for the
\* two-character label U+65E5 U+672C, which is outside Latin-1).
CharCodes(s) ==
  CASE
       s = "https://www.a.io/x" -> <<104,116,116,112,115,58,47,47,119,119,119,46,97,46,105,111,47,120>>
    [] s = "https://www.b.io/y" -> <<104,116,116,112,115,58,47,47,119,119,119,46,98,46,105,111,47,121>>
    [] s = "http://c.org/z" -> <<104,116,116,112,58,47,47,99,46,111,114,103,47,122>>
    [] s = "http://d.net/w" -> <<104,116,116,112,58,47,47,100,46,110,101,116,47,119>>
    [] s = "chrome://extensions/" -> <<99,104,114,111,109,101,58,47,47,101,120,116,101,110,115,105,111,110,115,47>>
    [] s = "https://www.youtube.com/" -> <<104,116,116,112,115,58,47,47,119,119,119,46,121,111,117,116,117,98,101,46,99,111,109,47>>
    [] s = "https://www.youtube.com/watch?v=1" -> <<104,116,116,112,115,58,47,47,119,119,119,46,121,111,117,116,117,98,101,46,99,111,109,47,119,97,116,99,104,63,118,61,49>>
    [] s = "https://www.facebook.com/p" -> <<104,116,116,112,115,58,47,47,119,119,119,46,102,97,99,101,98,111,111,107,46,99,111,109,47,112>>
    [] s = "http://c.org/a.pdf" -> <<104,116,116,112,58,47,47,99,46,111,114,103,47,97,46,112,100,102>>
    [] s = "facebook.com" -> <<102,97,99,101,98,111,111,107,46,99,111,109>>
    [] s = "twitter.com" -> <<116,119,105,116,116,101,114,46,99,111,109>>
    [] s = "instagram.com" -> <<105,110,115,116,97,103,114,97,109,46,99,111,109>>
    [] s = "youtube.com" -> <<121,111,117,116,117,98,101,46,99,111,109>>
    [] s = "chrome:" -> <<99,104,114,111,109,101,58>>
    [] s = "chrome-extension:" -> <<99,104,114,111,109,101,45,101,120,116,101,110,115,105,111,110,58>>
    [] s = "moz-extension:" -> <<109,111,122,45,101,120,116,101,110,115,105,111,110,58>>
    [] s = "chrome://" -> <<99,104,114,111,109,101,58,47,47>>
    [] s = "chrome-extension://" -> <<99,104,114,111,109,101,45,101,120,116,101,110,115,105,111,110,58,47,47>>
    [] s = "youtube.com/watch" -> <<121,111,117,116,117,98,101,46,99,111,109,47,119,97,116,99,104>>
    [] s = ".pdf" -> <<46,112,100,102>>
    [] s = ".jpg" -> <<46,106,112,103>>
    [] s = ".jpeg" -> <<46,106,112,101,103>>
    [] s = ".png" -> <<46,112,110,103>>
    [] s = ".gif" -> <<46,103,105,102>>
    [] s = ".svg" -> <<46,115,118,103>>
    [] s = "://" -> <<58,47,47>>
    [] s = "concept:" -> <<99,111,110,99,101,112,116,58>>
    [] s = "AI" -> <<65,73>>
    [] s = "ai" -> <<97,105>>
    [] s = " AI" -> <<32,65,73>>
    [] s = "Ethics" -> <<69,116,104,105,99,115>>
    [] s = "Machine learning" -> <<77,97,99,104,105,110,101,32,108,101,97,114,110,105,110,103>>
    [] s = "Machine vision" -> <<77,97,99,104,105,110,101,32,118,105,115,105,111,110>>
    [] s = "nihon" -> <<26085,26412>>

\* The URLs of the pages the model captures: two share their first twelve
\* characters ("https://www."), the third does not.
Urls == {"https://www.a.io/x", "https://www.b.io/y", "http://c.org/z"}

\* The URLs of pages that the eligibility gates are about: an internal
\* browser page, three pages of denylisted hosts and a PDF.
GateUrls ==
  {"chrome://extensions/", "https://www.youtube.com/",
   "https://www.youtube.com/watch?v=1", "https://www.facebook.com/p",
   "http://c.org/a.pdf"}

\* The concept labels an analysis may return.
Labels == {"AI", "ai", " AI", "Ethics", "Machine learning", "Machine vision", "nihon"}

\* ------------------------------------------------------------------------
\* BackgroundService.generateNodeId
\* ------------------------------------------------------------------------

\* A base64 digit is its index 0..63 in the alphabet A-Z a-z 0-9 + /;
\* Plus and Slash are the two that are no letter or digit, Pad is "=".
Plus == 62
Slash == 63
Pad == 64
\* The "-" that joins the two node ids of an edge id.
Dash == 65
\* What generateNodeId yields when btoa throws InvalidCharacterError.
Throws == <<-1>>

IdLength == 16
MaxLatin1 == 255

Min(a, b) == IF a < b THEN a ELSE b

\* btoa: three bytes become four base64 digits, the last group is padded.
RECURSIVE Btoa(_)
Btoa(b) ==
  IF Len(b) = 0 THEN <<>>
  ELSE IF Len(b) = 1 THEN <<b[1] \div 4, (b[1] % 4) * 16, Pad, Pad>>
  ELSE IF Len(b) = 2
    THEN <<b[1] \div 4, (b[1] % 4) * 16 + b[2] \div 16, (b[2] % 16) * 4, Pad>>
  ELSE <<b[1] \div 4, (b[1] % 4) * 16 + b[2] \div 16,
         (b[2] % 16) * 4 + b[3] \div 64, b[3] % 64>>
       \o Btoa(SubSeq(b, 4, Len(b)))

\* btoa throws on a code unit above 255.
BtoaThrows(codes) == \E i \in 1..Len(codes) : codes[i] > MaxLatin1

IsStripped(d) == d = Plus \/ d = Slash \/ d = Pad

\* btoa(url).replace(/[+/=]/g, '').substring(0, 16)
GenerateNodeId(codes) ==
  IF BtoaThrows(codes) THEN Throws
  ELSE LET stripped == SelectSeq(Btoa(codes), LAMBDA d : ~IsStripped(d))
       IN SubSeq(stripped, 1, Min(IdLength, Len(stripped)))

\* generateNodeId(content.url)
PageNodeId(url) == GenerateNodeId(CharCodes(url))

\* generateNodeId(`concept:${concept}`)
ConceptNodeId(concept) == GenerateNodeId(CharCodes("concept:") \o CharCodes(concept))

\* `${pageNodeId}-${conceptId}`
EdgeId(pageNodeId, conceptId) == pageNodeId \o <<Dash>> \o conceptId

\* The ids of the model's pages and concepts, computed once.
PageIdOf == [u \in Urls \cup GateUrls |-> PageNodeId(u)]
ConceptIdOf == [c \in Labels |-> ConceptNodeId(c)]

\* ------------------------------------------------------------------------
\* StorageManager: the operations on a snapshot of a persisted collection.
\* Every operation reads the whole collection (chrome.storage.local.get),
\* changes the copy and writes the whole collection back (set).
\* ------------------------------------------------------------------------

\* The archive keeps the 1000 most recent entries.
ArchiveCap == 1000
\* clearOldData's default maxAge, 7 * 24 * 60 * 60 * 1000 ms, in days.
MaxAge == 7
\* scheduleCleanup runs clearOldData when more than one day has passed.
CleanupEveryDays == 1
\* node.data.timestamp of a node that has none (concept nodes).
NoTimestamp == 0

\* Array.prototype.sort with (a, b) => b.timestamp - a.timestamp: stable,
\* newest first.
RECURSIVE InsertByTimestamp(_, _)
InsertByTimestamp(sorted, item) ==
  IF sorted = <<>> THEN <<item>>
  ELSE IF Head(sorted).timestamp >= item.timestamp
    THEN <<Head(sorted)>> \o InsertByTimestamp(Tail(sorted), item)
  ELSE <<item>> \o sorted

RECURSIVE SortNewestFirst(_)
SortNewestFirst(items) ==
  IF items = <<>> THEN <<>>
  ELSE InsertByTimestamp(SortNewestFirst(SubSeq(items, 1, Len(items) - 1)),
                         items[Len(items)])

KeepMostRecent_Unsorted(existingContent, item, cap) ==
  LET filteredContent == SelectSeq(existingContent, LAMBDA c : c.url # item.url)
      pushed == Append(filteredContent, item)
  IN SubSeq(pushed, 1, Min(cap, Len(pushed)))

\* storeProcessedContent's array pipeline: filter by URL, push, sort newest
\* first, slice(0, cap).
KeepMostRecent(existingContent, item, cap) ==
  LET filteredContent == SelectSeq(existingContent, LAMBDA c : c.url # item.url)
      sortedContent == SortNewestFirst(Append(filteredContent, item))
  IN SubSeq(sortedContent, 1, Min(cap, Len(sortedContent)))

\* storeProcessedContent: replace by URL, sort newest first, keep the cap.
StoreProcessedContent(existingContent, item) ==
  KeepMostRecent(existingContent, item, ArchiveCap)

FindSimilarContent_Never(archive, url) == FALSE

\* findSimilarContent(url) is truthy: some archived item has this URL.
FindSimilarContent(archive, url) ==
  \E i \in 1..Len(archive) : archive[i].url = url

AddGraphNode_PushOnly(snapshot, node) == Append(snapshot, node)

\* addGraphNode: drop the node with the same id, push the new one.
AddGraphNode(snapshot, node) ==
  Append(SelectSeq(snapshot, LAMBDA n : n.id # node.id), node)

\* nodes.findIndex(n => n.id === id), 1-based; 0 when there is none.
FindIndex(snapshot, id) ==
  IF \E i \in 1..Len(snapshot) : snapshot[i].id = id
  THEN CHOOSE i \in 1..Len(snapshot) :
         /\ snapshot[i].id = id
         /\ \A j \in 1..(i - 1) : snapshot[j].id # id
  ELSE 0

UpdateGraphNode_DropsOthers(snapshot, node) ==
  [write |-> FindIndex(snapshot, node.id) # 0, value |-> <<node>>]

\* updateGraphNode: replace in place when the id is present, else no write.
UpdateGraphNode(snapshot, node) ==
  LET nodeIndex == FindIndex(snapshot, node.id)
  IN IF nodeIndex # 0
     THEN [write |-> TRUE, value |-> [snapshot EXCEPT ![nodeIndex] = node]]
     ELSE [write |-> FALSE, value |-> snapshot]

AddGraphEdge_Refresh(snapshot, edge) ==
  IF FindIndex(snapshot, edge.id) # 0
  THEN [write |-> TRUE,
        value |-> [snapshot EXCEPT ![FindIndex(snapshot, edge.id)] = edge]]
  ELSE [write |-> TRUE, value |-> Append(snapshot, edge)]

\* addGraphEdge: push and write unless an edge with this id exists.
AddGraphEdge(snapshot, edge) ==
  IF FindIndex(snapshot, edge.id) # 0
  THEN [write |-> FALSE, value |-> snapshot]
  ELSE [write |-> TRUE, value |-> Append(snapshot, edge)]

RecentContent_KeepsAll(archive, cutoffTime) == archive

\* clearOldData's two filters.
RecentContent(archive, cutoffTime) ==
  SelectSeq(archive, LAMBDA c : c.timestamp > cutoffTime)

RecentNodes(snapshot, cutoffTime) ==
  SelectSeq(snapshot,
            LAMBDA n : n.timestamp = NoTimestamp \/ n.timestamp > cutoffTime)

\* ------------------------------------------------------------------------
\* BackgroundService: the records the ingestion builds.
\* ------------------------------------------------------------------------

\* Importance is kept in thousandths.
WordCountCap == 5000
ResearchBoost == 3000
DocumentationBoost == 2000
PerConcept == 500
ConceptBoostCap == 3000
ImportanceCap == 10000
NewConceptImportance == 1000
RepeatStep == 500

\* The score without its last Math.min.
CalculateImportance_Unclamped(content, concepts) ==
  LET base == Min(content.wordCount, WordCountCap)
      boost == IF content.contentType = "research" THEN ResearchBoost
               ELSE IF content.contentType = "documentation"
                 THEN DocumentationBoost
               ELSE 0
      rich == Min(Len(concepts) * PerConcept, ConceptBoostCap)
  IN base + boost + rich

\* calculateImportance: Math.min(wordCount / 1000, 5) + type boost +
\* Math.min(concepts.length * 0.5, 3), capped at 10.
CalculateImportance(content, concepts) ==
  LET base == Min(content.wordCount, WordCountCap)
      boost == IF content.contentType = "research" THEN ResearchBoost
               ELSE IF content.contentType = "documentation"
                 THEN DocumentationBoost
               ELSE 0
      rich == Min(Len(concepts) * PerConcept, ConceptBoostCap)
  IN Min(base + boost + rich, ImportanceCap)

\* The ProcessedContent processContent stores.
MakeProcessedContent(content, concepts) ==
  [nodeId |-> PageIdOf[content.url], url |-> content.url,
   title |-> content.title, timestamp |-> content.timestamp,
   wordCount |-> content.wordCount, contentType |-> content.contentType,
   concepts |-> concepts]

\* updateKnowledgeGraph's pageNode.
MakePageNode(content, concepts) ==
  [id |-> PageIdOf[content.url], type |-> "page", label |-> content.title,
   url |-> content.url, timestamp |-> content.timestamp,
   importance |-> CalculateImportance(content, concepts),
   connectedPages |-> <<>>]

\* processConceptNode's new concept node.
MakeConceptNode(concept, pageNodeId) ==
  [id |-> ConceptIdOf[concept], type |-> "concept", label |-> concept,
   url |-> "", timestamp |-> NoTimestamp,
   importance |-> NewConceptImportance,
   connectedPages |-> <<pageNodeId>>]

\* An update that doubles the importance instead.
UpdatedConceptNode_Doubling(existingNode, pageNodeId) ==
  [existingNode EXCEPT
     !.importance = 2 * existingNode.importance,
     !.connectedPages = Append(existingNode.connectedPages, pageNodeId)]

\* An update that skips a page id the list already holds.
UpdatedConceptNode_NoDuplicates(existingNode, pageNodeId) ==
  [existingNode EXCEPT
     !.importance = existingNode.importance + RepeatStep,
     !.connectedPages =
        IF \E i \in 1..Len(existingNode.connectedPages) :
             existingNode.connectedPages[i] = pageNodeId
        THEN existingNode.connectedPages
        ELSE Append(existingNode.connectedPages, pageNodeId)]

\* processConceptNode's update of an existing node.
UpdatedConceptNode(existingNode, pageNodeId) ==
  [existingNode EXCEPT
     !.importance = existingNode.importance + RepeatStep,
     !.connectedPages = Append(existingNode.connectedPages, pageNodeId)]

\* processConceptNode's edge between the page and the concept.
MakeEdge(pageNodeId, conceptId) ==
  [id |-> EdgeId(pageNodeId, conceptId), source |-> pageNodeId,
   target |-> conceptId, type |-> "relates_to", strength |-> 1,
   relationship |-> "contains_concept"]

\* ------------------------------------------------------------------------
\* State
\* ------------------------------------------------------------------------

VARIABLES
  now,           \* Date.now(), in days
  content,       \* chrome.storage.local[traily_content]
  nodes,         \* chrome.storage.local[traily_graph_nodes]
  edges,         \* chrome.storage.local[traily_graph_edges]
  lastCleanup,   \* chrome.storage.local[traily_last_cleanup], 0 when absent
  isProcessing,  \* BackgroundService.isProcessing, a set of URLs
  pc,            \* where each asynchronous call chain is suspended
  job,           \* what each call chain runs: tab, msg, api, cleanup
  loc,           \* the local variables of each call chain
  log,           \* history: the processContent calls that have returned
  prevNodes,     \* history: the nodes when the latest ingestion started
  evictions,     \* history: the clearOldData passes that wrote
  started,       \* history: the ingestions started so far
  idKind,        \* generateNodeId on its own: "page" or "concept"
  idArgs,        \* the two strings it is applied to
  idRes,         \* the two ids, <<>> before the calls
  clock,         \* Date.now() in the analysis client, in ms
  rateLimitQueue,   \* GeminiProcessor.rateLimitQueue: the queued calls
  gpIsProcessing,   \* GeminiProcessor.isProcessing
  lastApiCall,      \* GeminiProcessor.lastApiCall
  call,          \* each callGeminiAPI promise: new, queued, resolved, rejected
  worker,        \* each processQueue invocation and the task it awaits
  enqueued,      \* history: the calls in the order they were pushed
  requests,      \* history: the fetches in the order they were started
  lastSettled,   \* history: when the latest fetch settled, -1 before
  clMethod,      \* the GeminiProcessor method a caller invoked
  clKey,         \* whether GeminiProcessor.apiKey is set
  clConcepts,    \* findRelationships' existingConcepts
  clPc,          \* the method: start, awaiting callGeminiAPI, returned, raised
  clSettled,     \* how its callGeminiAPI promise settled, and with what text
  clResult,      \* what the method returned
  fn,            \* a pure function applied on its own
  fnArgs,        \* its arguments
  fnRes,         \* its result, <<>> before the call
  apiKey,        \* GeminiProcessor.apiKey, as code units
  storedKey,     \* chrome.storage.sync[traily_gemini_api_key], <<>> when absent
  keyLog,        \* history: the key operations that have returned
  settings,      \* chrome.storage.sync[traily_settings], <<>> when absent
  hung           \* the calls whose request the service never answers

storeVars == <<content, nodes, edges, lastCleanup>>
procVars == <<isProcessing, pc, job, loc>>
histVars == <<log, prevNodes, evictions, started>>
pipelineVars == <<now, storeVars, procVars, histVars>>
idVars == <<idKind, idArgs, idRes>>
queueVars == <<clock, rateLimitQueue, gpIsProcessing, lastApiCall, call, worker,
               enqueued, requests, lastSettled>>
clientVars == <<clMethod, clKey, clConcepts, clPc, clSettled, clResult>>
fnVars == <<fn, fnArgs, fnRes>>
keyVars == <<apiKey, storedKey, keyLog>>
compVars == <<keyVars, settings, hung>>
unitVars == <<clientVars, fnVars, compVars>>
vars == <<pipelineVars, queueVars, idVars, unitVars>>

\* Bounds of the model.
NProcs == 2
MaxJobs == 2
MaxNow == 9

Procs == 1..NProcs

\* extractPageContent returns null below this word count.
MinWords == 100

\* What the extractor can capture: url, title, word count, content type.
Pages ==
  { [url |-> "https://www.a.io/x", title |-> "t1", wordCount |-> 500,
     contentType |-> "article"],
    [url |-> "https://www.a.io/x", title |-> "t2", wordCount |-> 1200,
     contentType |-> "research"],
    [url |-> "https://www.b.io/y", title |-> "t1", wordCount |-> 500,
     contentType |-> "article"],
    [url |-> "http://c.org/z", title |-> "t1", wordCount |-> 6000,
     contentType |-> "documentation"] }

\* The concept lists an analysis can hold.
ConceptLists ==
  { <<"AI", "Ethics">>, <<"Machine learning", "Machine vision">>,
    <<"ai", "nihon">> }

\* analyzeContent's results: null, or an analysis with its concepts.
AnalysisOutcomes ==
  {[ok |-> FALSE, concepts |-> <<>>]}
    \cup {[ok |-> TRUE, concepts |-> cs] : cs \in ConceptLists}

NoCapture ==
  [url |-> "", title |-> "", wordCount |-> 0, contentType |-> "",
   timestamp |-> 0]
NoNode ==
  [id |-> <<>>, type |-> "", label |-> "", url |-> "",
   timestamp |-> NoTimestamp, importance |-> 0, connectedPages |-> <<>>]
NoEdge ==
  [id |-> <<>>, source |-> <<>>, target |-> <<>>, type |-> "",
   strength |-> 0, relationship |-> ""]
IdleLoc ==
  [url |-> "", cap |-> NoCapture, outcome |-> "", concepts |-> <<>>,
   idx |-> 0, node |-> NoNode, edge |-> NoEdge, wrote |-> FALSE,
   snap |-> <<>>, snap2 |-> <<>>, cutoff |-> 0]

Capture(page, time) ==
  [url |-> page.url, title |-> page.title, wordCount |-> page.wordCount,
   contentType |-> page.contentType, timestamp |-> time]

AllIdle == \A p \in Procs : pc[p] = "idle"

InitStore ==
  /\ content = <<>>
  /\ nodes = <<>>
  /\ edges = <<>>
  /\ lastCleanup = 0

InitProcs ==
  /\ isProcessing = {}
  /\ pc = [p \in Procs |-> "idle"]
  /\ job = [p \in Procs |-> "none"]
  /\ loc = [p \in Procs |-> IdleLoc]

InitHist ==
  /\ log = <<>>
  /\ prevNodes = <<>>
  /\ evictions = 0
  /\ started = 0

\* generateNodeId is not under study: no arguments, no results.
InitIds ==
  /\ idKind = "page"
  /\ idArgs = <<>>
  /\ idRes = <<>>

\* No method of the analysis client is called on its own.
InitClient ==
  /\ clMethod = ""
  /\ clKey = FALSE
  /\ clConcepts = <<>>
  /\ clPc = "none"
  /\ clSettled = <<>>
  /\ clResult = <<>>

\* No pure function is applied on its own.
InitFn ==
  /\ fn = ""
  /\ fnArgs = <<>>
  /\ fnRes = <<>>

\* The GeminiProcessor is constructed with apiKey = '' and no custom key is
\* stored.
InitKey ==
  /\ apiKey = <<>>
  /\ storedKey = <<>>
  /\ keyLog = <<>>

InitComp == InitKey /\ settings = <<>> /\ hung = {}

InitUnits == InitClient /\ InitFn /\ InitComp

\* ------------------------------------------------------------------------
\* GeminiProcessor: the rate-limited queue
\* ------------------------------------------------------------------------

\* ConfigManager.getConfig().rateLimitDelay, in ms.
RateLimitDelay == 1000

\* Bounds of the queue model: the calls made, the clock's step and end.
NCalls == 3
MaxTicks == 3

\* The clock advances by half the delay, from the time of construction.
TickMs == RateLimitDelay \div 2
MaxClock == RateLimitDelay + MaxTicks * TickMs

Calls == 1..NCalls

\* A processQueue invocation that is not running.
NoWorker == [st |-> "none", task |-> 0, wake |-> 0]

\* The client after construction: lastApiCall = 0 and Date.now() far beyond
\* rateLimitDelay.
InitQueue ==
  /\ clock = RateLimitDelay
  /\ rateLimitQueue = <<>>
  /\ gpIsProcessing = FALSE
  /\ lastApiCall = 0
  /\ call = [c \in Calls |-> "new"]
  /\ worker = [c \in Calls |-> NoWorker]
  /\ enqueued = <<>>
  /\ requests = <<>>
  /\ lastSettled = -1

\* ------------------------------------------------------------------------
\* Moving a call chain to its next suspension point
\* ------------------------------------------------------------------------

Done(l) == [pc |-> "idle", loc |-> l]

\* The for loop of updateKnowledgeGraph at concept i: processConceptNode
\* computes the concept id (btoa may throw, which processContent catches)
\* and awaits getGraphNode.
ConceptLoop(l, i) ==
  IF i > Len(l.concepts) THEN Done(l)
  ELSE IF ConceptIdOf[l.concepts[i]] = Throws THEN Done(l)
  ELSE [pc |-> "getNode", loc |-> [l EXCEPT !.idx = i]]

\* processConceptNode after its node write: build the edge, addGraphEdge.
StartEdge(l) ==
  [pc |-> "edgeRead",
   loc |-> [l EXCEPT !.edge = MakeEdge(PageIdOf[l.cap.url],
                                       ConceptIdOf[l.concepts[l.idx]])]]

AfterAddNode(j, l) ==
  IF j = "api" THEN Done(l)
  ELSE IF l.node.type = "page" THEN ConceptLoop(l, 1)
  ELSE StartEdge(l)

AfterUpdateNode(j, l) == IF j = "api" THEN Done(l) ELSE StartEdge(l)

AfterAddEdge(j, l) == IF j = "api" THEN Done(l) ELSE ConceptLoop(l, l.idx + 1)

\* The call chain p goes on to nxt; when it ends, processTab's finally
\* removes the URL from isProcessing.
Goto(p, nxt) ==
  /\ pc' = [pc EXCEPT ![p] = nxt.pc]
  /\ loc' = [loc EXCEPT ![p] = IF nxt.pc = "idle" THEN IdleLoc ELSE nxt.loc]
  /\ IF nxt.pc = "idle"
     THEN /\ job' = [job EXCEPT ![p] = "none"]
          /\ isProcessing' = IF job[p] = "tab"
                             THEN isProcessing \ {loc[p].url}
                             ELSE isProcessing
          /\ log' = IF nxt.loc.outcome # ""
                    THEN Append(log, [url |-> nxt.loc.url,
                                      title |-> nxt.loc.cap.title,
                                      concepts |-> nxt.loc.concepts,
                                      outcome |-> nxt.loc.outcome,
                                      edge |-> nxt.loc.edge,
                                      wrote |-> nxt.loc.wrote])
                    ELSE log
     ELSE UNCHANGED <<job, isProcessing, log>>

\* ------------------------------------------------------------------------
\* BackgroundService: entry points and processContent
\* ------------------------------------------------------------------------

\* chrome.tabs.onUpdated -> processTab(tab): return when the URL is being
\* processed, else add it and await executeScript.
ProcessTab(p, url) ==
  /\ pc[p] = "idle"
  /\ started < MaxJobs
  /\ url \notin isProcessing
  /\ isProcessing' = isProcessing \cup {url}
  /\ pc' = [pc EXCEPT ![p] = "extract"]
  /\ job' = [job EXCEPT ![p] = "tab"]
  /\ loc' = [loc EXCEPT ![p] = [IdleLoc EXCEPT !.url = url]]
  /\ started' = started + 1
  /\ UNCHANGED <<idVars, queueVars, unitVars, now, storeVars, log, evictions>>

\* executeScript resolves: extractPageContent gave null (too short, or it
\* threw) or a CapturedContent, and processContent awaits the dedup lookup.
ExtractFrom(p, pages) ==
  /\ pc[p] = "extract"
  /\ \/ Goto(p, Done(loc[p]))
     \/ \E page \in pages :
          /\ page.url = loc[p].url
          /\ ~(page.wordCount < MinWords)
          /\ Goto(p, [pc |-> "dedup",
                      loc |-> [loc[p] EXCEPT !.cap = Capture(page, now)]])
  /\ UNCHANGED <<idVars, queueVars, unitVars, now, storeVars, prevNodes, evictions, started>>

ExtractDone(p) == ExtractFrom(p, Pages)

\* chrome.runtime.onMessage, PROCESS_CONTENT: processContent(message.data).
ProcessContentMessage(p, page) ==
  /\ pc[p] = "idle"
  /\ started < MaxJobs
  /\ pc' = [pc EXCEPT ![p] = "dedup"]
  /\ job' = [job EXCEPT ![p] = "msg"]
  /\ loc' = [loc EXCEPT ![p] = [IdleLoc EXCEPT !.url = page.url,
                                               !.cap = Capture(page, now)]]
  /\ started' = started + 1
  /\ UNCHANGED <<idVars, queueVars, unitVars, now, storeVars, isProcessing, log, evictions>>

\* findSimilarContent resolves: return when it found the URL, else await
\* analyzeContent.
DedupCheck(p) ==
  /\ pc[p] = "dedup"
  /\ IF FindSimilarContent(content, loc[p].cap.url)
     THEN Goto(p, Done([loc[p] EXCEPT !.outcome = "skipped"]))
     ELSE Goto(p, [pc |-> "analyze", loc |-> loc[p]])
  /\ UNCHANGED <<idVars, queueVars, unitVars, now, storeVars, prevNodes, evictions, started>>

\* A processContent without its if (analysis): a null analysis is stored too.
AnalyzeDone_StoresNull(p, outcomes) ==
  /\ pc[p] = "analyze"
  /\ \E a \in outcomes :
       Goto(p, [pc |-> "storeRead",
                loc |-> [loc[p] EXCEPT
                           !.outcome = IF a.ok THEN "analysed" ELSE "null",
                           !.concepts = a.concepts]])
  /\ UNCHANGED <<idVars, queueVars, unitVars, now, storeVars, prevNodes, evictions, started>>

\* analyzeContent resolves: on null nothing is stored, else
\* storeProcessedContent reads the archive.
AnalyzeDone(p, outcomes) ==
  /\ pc[p] = "analyze"
  /\ \E a \in outcomes :
       IF a.ok
       THEN Goto(p, [pc |-> "storeRead",
                     loc |-> [loc[p] EXCEPT !.outcome = "analysed",
                                            !.concepts = a.concepts]])
       ELSE Goto(p, Done([loc[p] EXCEPT !.outcome = "null"]))
  /\ UNCHANGED <<idVars, queueVars, unitVars, now, storeVars, prevNodes, evictions, started>>

\* storeProcessedContent: chrome.storage.local.get(CONTENT) resolves.
StoreRead(p) ==
  /\ pc[p] = "storeRead"
  /\ Goto(p, [pc |-> "storeWrite", loc |-> [loc[p] EXCEPT !.snap = content]])
  /\ UNCHANGED <<idVars, queueVars, unitVars, now, storeVars, prevNodes, evictions, started>>

\* storeProcessedContent: set(CONTENT) resolves; updateKnowledgeGraph builds
\* the page node and addGraphNode reads the nodes.
StoreWrite(p) ==
  /\ pc[p] = "storeWrite"
  /\ content' = StoreProcessedContent(
                  loc[p].snap, MakeProcessedContent(loc[p].cap, loc[p].concepts))
  /\ Goto(p, [pc |-> "nodeRead",
              loc |-> [loc[p] EXCEPT
                         !.node = MakePageNode(loc[p].cap, loc[p].concepts)]])
  /\ UNCHANGED <<idVars, queueVars, unitVars, now, nodes, edges, lastCleanup, prevNodes, evictions, started>>

\* ------------------------------------------------------------------------
\* StorageManager: the suspension points of the graph operations
\* ------------------------------------------------------------------------

\* addGraphNode: get(NODES) resolves.
AddNodeRead(p) ==
  /\ pc[p] = "nodeRead"
  /\ Goto(p, [pc |-> "nodeWrite", loc |-> [loc[p] EXCEPT !.snap = nodes]])
  /\ UNCHANGED <<idVars, queueVars, unitVars, now, storeVars, prevNodes, evictions, started>>

\* addGraphNode: set(NODES) resolves.
AddNodeWrite(p) ==
  /\ pc[p] = "nodeWrite"
  /\ nodes' = AddGraphNode(loc[p].snap, loc[p].node)
  /\ Goto(p, AfterAddNode(job[p], loc[p]))
  /\ UNCHANGED <<idVars, queueVars, unitVars, now, content, edges, lastCleanup, prevNodes, evictions, started>>

\* getGraphNode resolves inside processConceptNode: create the concept node
\* when it is absent, else update the one that was read.
GetNode(p) ==
  /\ pc[p] = "getNode"
  /\ LET conceptId == ConceptIdOf[loc[p].concepts[loc[p].idx]]
         pageNodeId == PageIdOf[loc[p].cap.url]
         i == FindIndex(nodes, conceptId)
     IN IF i = 0
        THEN Goto(p, [pc |-> "nodeRead",
                      loc |-> [loc[p] EXCEPT
                                 !.node = MakeConceptNode(
                                            loc[p].concepts[loc[p].idx],
                                            pageNodeId)]])
        ELSE Goto(p, [pc |-> "updRead",
                      loc |-> [loc[p] EXCEPT
                                 !.node = UpdatedConceptNode(nodes[i],
                                                             pageNodeId)]])
  /\ UNCHANGED <<idVars, queueVars, unitVars, now, storeVars, prevNodes, evictions, started>>

\* updateGraphNode: get(NODES) resolves; without the id nothing is written.
UpdateNodeRead(p) ==
  /\ pc[p] = "updRead"
  /\ IF UpdateGraphNode(nodes, loc[p].node).write
     THEN Goto(p, [pc |-> "updWrite", loc |-> [loc[p] EXCEPT !.snap = nodes]])
     ELSE Goto(p, AfterUpdateNode(job[p], loc[p]))
  /\ UNCHANGED <<idVars, queueVars, unitVars, now, storeVars, prevNodes, evictions, started>>

\* updateGraphNode: set(NODES) resolves.
UpdateNodeWrite(p) ==
  /\ pc[p] = "updWrite"
  /\ nodes' = UpdateGraphNode(loc[p].snap, loc[p].node).value
  /\ Goto(p, AfterUpdateNode(job[p], loc[p]))
  /\ UNCHANGED <<idVars, queueVars, unitVars, now, content, edges, lastCleanup, prevNodes, evictions, started>>

\* addGraphEdge: get(EDGES) resolves; with the id present nothing is written.
AddEdgeRead(p) ==
  /\ pc[p] = "edgeRead"
  /\ IF AddGraphEdge(edges, loc[p].edge).write
     THEN Goto(p, [pc |-> "edgeWrite", loc |-> [loc[p] EXCEPT !.snap = edges]])
     ELSE Goto(p, AfterAddEdge(job[p], [loc[p] EXCEPT !.wrote = FALSE]))
  /\ UNCHANGED <<idVars, queueVars, unitVars, now, storeVars, prevNodes, evictions, started>>

\* addGraphEdge: set(EDGES) resolves.
AddEdgeWrite(p) ==
  /\ pc[p] = "edgeWrite"
  /\ edges' = AddGraphEdge(loc[p].snap, loc[p].edge).value
  /\ Goto(p, AfterAddEdge(job[p], [loc[p] EXCEPT !.wrote = TRUE]))
  /\ UNCHANGED <<idVars, queueVars, unitVars, now, content, nodes, lastCleanup, prevNodes, evictions, started>>

\* ------------------------------------------------------------------------
\* StorageManager: scheduleCleanup and clearOldData
\* ------------------------------------------------------------------------

\* new StorageManager() when the service worker starts: scheduleCleanup
\* awaits get(LAST_CLEANUP).
ScheduleCleanup(p) ==
  /\ pc[p] = "idle"
  /\ pc' = [pc EXCEPT ![p] = "schedRead"]
  /\ job' = [job EXCEPT ![p] = "cleanup"]
  /\ UNCHANGED <<idVars, queueVars, unitVars, now, storeVars, isProcessing, loc, log, evictions, started>>

\* get(LAST_CLEANUP) resolves: clearOldData when more than a day has passed;
\* it fixes cutoffTime and awaits get(CONTENT).
ScheduleRead(p) ==
  /\ pc[p] = "schedRead"
  /\ IF now - lastCleanup > CleanupEveryDays
     THEN Goto(p, [pc |-> "cleanContent",
                   loc |-> [loc[p] EXCEPT !.cutoff = now - MaxAge]])
     ELSE Goto(p, Done(loc[p]))
  /\ UNCHANGED <<idVars, queueVars, unitVars, now, storeVars, prevNodes, evictions, started>>

\* clearOldData: get(CONTENT) resolves.
CleanReadContent(p) ==
  /\ pc[p] = "cleanContent"
  /\ Goto(p, [pc |-> "cleanNodes",
              loc |-> [loc[p] EXCEPT
                         !.snap = RecentContent(content, loc[p].cutoff)]])
  /\ UNCHANGED <<idVars, queueVars, unitVars, now, storeVars, prevNodes, evictions, started>>

\* clearOldData: get(NODES) resolves.
CleanReadNodes(p) ==
  /\ pc[p] = "cleanNodes"
  /\ Goto(p, [pc |-> "cleanWrite",
              loc |-> [loc[p] EXCEPT
                         !.snap2 = RecentNodes(nodes, loc[p].cutoff)]])
  /\ UNCHANGED <<idVars, queueVars, unitVars, now, storeVars, prevNodes, evictions, started>>

\* clearOldData: set(CONTENT, NODES, LAST_CLEANUP) resolves.
CleanWrite(p) ==
  /\ pc[p] = "cleanWrite"
  /\ content' = loc[p].snap
  /\ nodes' = loc[p].snap2
  /\ lastCleanup' = now
  /\ evictions' = evictions + 1
  /\ Goto(p, Done(loc[p]))
  /\ UNCHANGED <<idVars, queueVars, unitVars, now, edges, prevNodes, started>>

\* ------------------------------------------------------------------------
\* StorageManager called directly
\* ------------------------------------------------------------------------

\* addGraphEdge(edge) is called: it awaits get(EDGES).
AddGraphEdgeCall(p, edge) ==
  /\ pc[p] = "idle"
  /\ started < MaxJobs
  /\ pc' = [pc EXCEPT ![p] = "edgeRead"]
  /\ job' = [job EXCEPT ![p] = "api"]
  /\ loc' = [loc EXCEPT ![p] = [IdleLoc EXCEPT !.edge = edge,
                                               !.outcome = "addGraphEdge"]]
  /\ started' = started + 1
  /\ UNCHANGED <<idVars, queueVars, unitVars, now, storeVars, isProcessing, log, prevNodes, evictions>>

\* clearAllData (the CLEAR_ALL_DATA message): chrome.storage.local.clear()
\* takes effect.
ClearAllData ==
  /\ started < MaxJobs
  /\ content' = <<>>
  /\ nodes' = <<>>
  /\ edges' = <<>>
  /\ lastCleanup' = 0
  /\ started' = started + 1
  /\ UNCHANGED <<idVars, queueVars, unitVars, now, procVars, log, prevNodes, evictions>>

\* Time passes.
Tick(d) ==
  /\ now + d <= MaxNow
  /\ now' = now + d
  /\ UNCHANGED <<idVars, queueVars, unitVars, storeVars, procVars, histVars>>

\* ------------------------------------------------------------------------
\* SpecSeq: one call chain at a time (sequential ingestion and cleanup)
\* ------------------------------------------------------------------------

\* The steps of a running call chain.
ContentStep(p, outcomes) ==
  \/ ExtractDone(p)
  \/ DedupCheck(p)
  \/ AnalyzeDone(p, outcomes)
  \/ StoreRead(p)
  \/ StoreWrite(p)

GraphStep(p) ==
  \/ AddNodeRead(p)
  \/ AddNodeWrite(p)
  \/ GetNode(p)
  \/ UpdateNodeRead(p)
  \/ UpdateNodeWrite(p)
  \/ AddEdgeRead(p)
  \/ AddEdgeWrite(p)

CleanupStep(p) ==
  \/ ScheduleRead(p)
  \/ CleanReadContent(p)
  \/ CleanReadNodes(p)
  \/ CleanWrite(p)

InitSeq ==
  /\ now = 1
  /\ InitStore
  /\ InitProcs
  /\ InitHist
  /\ InitIds
  /\ InitQueue
  /\ InitUnits

NextSeq ==
  \/ AllIdle /\ prevNodes' = nodes
             /\ \E page \in Pages : ProcessTab(1, page.url)
  \/ AllIdle /\ prevNodes' = nodes
             /\ \E page \in Pages : ProcessContentMessage(1, page)
  \/ AllIdle /\ UNCHANGED prevNodes /\ ScheduleCleanup(1)
  \/ AllIdle /\ Tick(MaxAge)
  \/ ContentStep(1, AnalysisOutcomes)
  \/ GraphStep(1)
  \/ CleanupStep(1)

SpecSeq == InitSeq /\ [][NextSeq]_vars

\* ------------------------------------------------------------------------
\* Properties of sequential ingestion (SpecSeq)
\* ------------------------------------------------------------------------

Count(seq, Test(_)) == Len(SelectSeq(seq, Test))

Analysed == SelectSeq(log, LAMBDA e : e.outcome = "analysed")

PageNodes == SelectSeq(nodes, LAMBDA n : n.type = "page")
ConceptNodes == SelectSeq(nodes, LAMBDA n : n.type = "concept")

Range(seq) == {seq[i] : i \in 1..Len(seq)}

\* The importance of the node with this id in a node collection.
ImportanceIn(collection, id) == collection[FindIndex(collection, id)].importance

\* The step in which the dedup lookup of call chain p resolves.
DedupStepOf(p) == pc[p] = "dedup" /\ pc'[p] # "dedup"

\* processContent returned at once and wrote nothing.
NoOpFor(p) == pc'[p] = "idle" /\ UNCHANGED storeVars

\* C1 as stated: once an ingestion of URL u has returned after a successful
\* analysis, every later ingestion of u is a no-op (no analysis call, the
\* archive, nodes and edges unchanged), and exactly one ProcessedContent and
\* exactly one page node exist for u.
C1_SecondIngestionIsNoOp ==
  [][\A p \in Procs :
       (\E e \in Range(Analysed) : e.url = loc[p].cap.url)
       => /\ DedupStepOf(p) => NoOpFor(p)
          /\ (pc[p] # "idle" /\ pc'[p] = "idle")
             => /\ Count(content', LAMBDA c : c.url = loc[p].cap.url) = 1
                /\ Count(SelectSeq(nodes', LAMBDA n : n.type = "page"),
                         LAMBDA n : n.url = loc[p].cap.url) = 1]_vars

\* C1 amended: an ingestion of URL u whose dedup lookup finds u in the
\* archive is a no-op (no analysis call, the archive, nodes and edges
\* unchanged); the archive never holds two records of one URL and the nodes
\* never hold two nodes with one page's identifier.
C1_IngestionOfArchivedUrlIsNoOp ==
  /\ [][\A p \in Procs :
          (DedupStepOf(p)
             /\ \E c \in Range(content) : c.url = loc[p].cap.url)
          => NoOpFor(p)]_vars
  /\ [](\A u \in Urls :
          /\ Count(content, LAMBDA c : c.url = u) <= 1
          /\ Count(nodes, LAMBDA n : n.id = PageIdOf[u]) <= 1)

\* C1 witness: a second capture of an archived URL, with another title, was
\* skipped by the dedup lookup, and the archive still holds the first.
C1_Witness ==
  /\ AllIdle
  /\ Len(log) = 2
  /\ log[1].outcome = "analysed"
  /\ log[2].outcome = "skipped"
  /\ log[2].url = log[1].url
  /\ log[2].title # log[1].title
  /\ Count(content, LAMBDA c : c.url = log[1].url /\ c.title = log[1].title) = 1

\* Two pages with different URLs were ingested one after the other from an
\* empty store, both analysed, and nothing was evicted.
TwoPagesIngested ==
  /\ AllIdle
  /\ evictions = 0
  /\ Len(log) = 2
  /\ Len(Analysed) = 2
  /\ log[1].url # log[2].url

\* C3: after sequentially ingesting two different URLs whose analyses both
\* hold a concept, there is exactly one concept node for it, its
\* connectedPages holds both page ids, and exactly two relates_to edges
\* point at it.
C3_ConceptConvergence ==
  TwoPagesIngested =>
    \A c \in Range(log[1].concepts) \cap Range(log[2].concepts) :
      /\ Count(ConceptNodes, LAMBDA n : n.label = c) = 1
      /\ \A n \in Range(ConceptNodes) :
           n.label = c =>
             /\ PageIdOf[log[1].url] \in Range(n.connectedPages)
             /\ PageIdOf[log[2].url] \in Range(n.connectedPages)
             /\ Count(edges, LAMBDA e : e.target = n.id
                                        /\ e.type = "relates_to") = 2

\* C5: from an empty store, page A with two concepts gives 1 page node, 2
\* concept nodes and 2 edges; then page B with another URL and the same two
\* concepts gives 2 page nodes, 2 concept nodes, each with two
\* connectedPages, and 4 edges.
C5_EndToEndCounts ==
  /\ (/\ AllIdle
      /\ evictions = 0
      /\ Len(log) = 1
      /\ Len(Analysed) = 1
      /\ Len(log[1].concepts) = 2)
     => /\ Len(PageNodes) = 1
        /\ Len(ConceptNodes) = 2
        /\ Len(edges) = 2
  /\ (TwoPagesIngested /\ Len(log[1].concepts) = 2
        /\ log[2].concepts = log[1].concepts)
     => /\ Len(PageNodes) = 2
        /\ Len(ConceptNodes) = 2
        /\ \A n \in Range(ConceptNodes) : Len(n.connectedPages) = 2
        /\ Len(edges) = 4

\* The latest ingestion (every ingestion started so far got to
\* processContent and returned) was of a page with a URL not ingested
\* before, was analysed, and mentions a concept whose node existed when it
\* started.
SecondMention(c) ==
  /\ AllIdle
  /\ started = Len(log)
  /\ Len(log) >= 2
  /\ log[Len(log)].outcome = "analysed"
  /\ \A i \in 1..(Len(log) - 1) : log[i].url # log[Len(log)].url
  /\ c \in Range(log[Len(log)].concepts)
  /\ ConceptIdOf[c] # Throws
  /\ FindIndex(prevNodes, ConceptIdOf[c]) # 0
  /\ FindIndex(nodes, ConceptIdOf[c]) # 0

\* How many concepts of the list processConceptNode gets to (the loop ends
\* at a label btoa throws on) target the node with this id.
RECURSIVE Mentions(_, _)
Mentions(concepts, id) ==
  IF concepts = <<>> \/ ConceptIdOf[Head(concepts)] = Throws THEN 0
  ELSE (IF ConceptIdOf[Head(concepts)] = id THEN 1 ELSE 0)
       + Mentions(Tail(concepts), id)

\* C6 as stated: after a second page (another URL) that mentions a known
\* concept is ingested, the concept node's importance is double what it was.
C6_ImportanceDoubled ==
  \A c \in Labels :
    SecondMention(c) =>
      ImportanceIn(nodes, ConceptIdOf[c])
        = 2 * ImportanceIn(prevNodes, ConceptIdOf[c])

\* C6 amended: after a second page (another URL) that mentions a known
\* concept is ingested, the concept node's importance is what it was plus
\* 0.5 for each of the page's concepts that targets the node (1.5 after one
\* mention on each of two pages), not double.
C6_ImportanceRaisedByStep ==
  \A c \in Labels :
    SecondMention(c) =>
      ImportanceIn(nodes, ConceptIdOf[c])
        = ImportanceIn(prevNodes, ConceptIdOf[c])
          + RepeatStep * Mentions(log[Len(log)].concepts, ConceptIdOf[c])

\* C6 witness: the second page's single mention took a concept from 1 to 1.5.
C6_Witness ==
  /\ SecondMention("AI")
  /\ ImportanceIn(prevNodes, ConceptIdOf["AI"]) = NewConceptImportance
  /\ ImportanceIn(nodes, ConceptIdOf["AI"]) = NewConceptImportance + RepeatStep

\* C13: an ingestion whose analysis is null returns from the await of
\* analyzeContent and leaves the content archive, the nodes and the edges as
\* they were: its last step writes nothing, and the nodes are those it
\* started with.
C13_NullAnalysisStoresNothing ==
  [][(log' # log /\ log'[Len(log')].outcome = "null")
       => /\ \E p \in Procs : pc[p] = "analyze" /\ pc'[p] = "idle"
          /\ UNCHANGED storeVars
          /\ nodes' = prevNodes]_vars

\* C13 witness: after one page was ingested, the ingestion of another got a
\* null analysis and returned, and the store holds the first page only.
C13_Witness ==
  /\ AllIdle
  /\ Len(log) = 2
  /\ log[1].outcome = "analysed"
  /\ log[2].outcome = "null"
  /\ log[2].url # log[1].url
  /\ Len(content) = 1
  /\ content[1].url = log[1].url
  /\ nodes = prevNodes
  /\ nodes # <<>>

\* ------------------------------------------------------------------------
\* Spec: concurrent ingestions, interleaved at every await
\* ------------------------------------------------------------------------

\* The concurrent runs capture each URL with one title.
ConcurrentPages == {page \in Pages : page.title = "t1"}

\* and their analyses are null or hold the same two concepts.
ConcurrentOutcomes ==
  {a \in AnalysisOutcomes : a.concepts \in {<<>>, <<"AI", "Ethics">>}}

\* A new call chain takes the first free slot.
FirstIdle ==
  IF \E p \in Procs : pc[p] = "idle"
  THEN CHOOSE p \in Procs :
         pc[p] = "idle" /\ \A q \in Procs : pc[q] = "idle" => p <= q
  ELSE 0

Init ==
  /\ now = 1
  /\ InitStore
  /\ InitProcs
  /\ InitHist
  /\ InitIds
  /\ InitQueue
  /\ InitUnits

Next ==
  \E p \in Procs :
    \/ UNCHANGED prevNodes /\ p = FirstIdle
         /\ \E page \in ConcurrentPages : ProcessTab(p, page.url)
    \/ UNCHANGED prevNodes /\ p = FirstIdle
         /\ \E page \in ConcurrentPages : ProcessContentMessage(p, page)
    \/ ContentStep(p, ConcurrentOutcomes)
    \/ GraphStep(p)

Spec == Init /\ [][Next]_vars

\* processContent of call chain p is past its dedup lookup and has not yet
\* made its last graph write.
Ingesting(p) ==
  pc[p] \in {"analyze", "storeRead", "storeWrite", "nodeRead",
             "nodeWrite", "getNode", "updRead", "updWrite", "edgeRead",
             "edgeWrite"}

\* C2: at no time are two ingestions of the same URL in progress, whichever
\* entry point (processTab or a PROCESS_CONTENT message) started them.
C2_OneIngestionPerUrl ==
  \A p \in Procs, q \in Procs :
    (p # q /\ Ingesting(p) /\ Ingesting(q)) => loc[p].cap.url # loc[q].cap.url

\* ------------------------------------------------------------------------
\* SpecStore: concurrent direct calls of the StorageManager
\* ------------------------------------------------------------------------

\* The edges the callers pass: four ids, each with two strengths and labels.
EdgeArgs ==
  { [MakeEdge(PageIdOf[u], ConceptIdOf[c]) EXCEPT
       !.strength = k.strength, !.relationship = k.relationship] :
      u \in {"https://www.a.io/x", "http://c.org/z"},
      c \in {"AI", "Ethics"},
      k \in {[strength |-> 1, relationship |-> "contains_concept"],
             [strength |-> 2, relationship |-> "refreshed"]} }

InitStoreSpec ==
  /\ now = 1
  /\ InitStore
  /\ InitProcs
  /\ InitHist
  /\ InitIds
  /\ InitQueue
  /\ InitUnits

NextStore ==
  \/ \E p \in Procs : p = FirstIdle /\ \E e \in EdgeArgs : AddGraphEdgeCall(p, e)
  \/ ClearAllData
  \/ \E p \in Procs : AddEdgeRead(p)
  \/ \E p \in Procs : AddEdgeWrite(p)

SpecStore == InitStoreSpec /\ [][NextStore]_vars

\* C7: the edge collection never holds two edges with one id, and an
\* addGraphEdge whose read finds its id stored returns without writing: the
\* edges stay as they are, the stored edge's strength and label included.
C7_EdgeIdempotence ==
  /\ [](\A i \in 1..Len(edges), j \in 1..Len(edges) :
          i # j => edges[i].id # edges[j].id)
  /\ [][\A p \in Procs :
          (pc[p] = "edgeRead" /\ pc'[p] # "edgeRead"
             /\ FindIndex(edges, loc[p].edge.id) # 0)
          => (pc'[p] = "idle" /\ edges' = edges)]_vars

\* C7 witness: an addGraphEdge with a stored id and another strength has
\* returned without a write, and the stored edge kept its strength.
C7_Witness ==
  \E i \in 1..Len(log), j \in 1..Len(edges) :
    /\ log[i].outcome = "addGraphEdge"
    /\ ~log[i].wrote
    /\ edges[j].id = log[i].edge.id
    /\ edges[j].strength # log[i].edge.strength

\* ------------------------------------------------------------------------
\* SpecId: generateNodeId applied to two URLs or to two concept labels
\* ------------------------------------------------------------------------

InitId ==
  /\ now = 1
  /\ InitStore
  /\ InitProcs
  /\ InitHist
  /\ InitQueue
  /\ InitUnits
  /\ idKind \in {"page", "concept"}
  /\ idArgs \in IF idKind = "page" THEN Urls \X Urls ELSE Labels \X Labels
  /\ idRes = <<>>

\* updateKnowledgeGraph computes the page ids of two URLs.
PageIds ==
  /\ idKind = "page"
  /\ idRes = <<>>
  /\ idRes' = <<PageNodeId(idArgs[1]), PageNodeId(idArgs[2])>>
  /\ UNCHANGED <<pipelineVars, queueVars, unitVars, idKind, idArgs>>

\* processConceptNode computes the ids of two concepts.
ConceptIds ==
  /\ idKind = "concept"
  /\ idRes = <<>>
  /\ idRes' = <<ConceptNodeId(idArgs[1]), ConceptNodeId(idArgs[2])>>
  /\ UNCHANGED <<pipelineVars, queueVars, unitVars, idKind, idArgs>>

NextId == PageIds \/ ConceptIds

SpecId == InitId /\ [][NextId]_vars

\* String.prototype.toLowerCase and trim on code units (ASCII letters, the
\* space): the normal form the spec gives a concept label.
LowerCase(codes) ==
  [i \in 1..Len(codes) |->
     IF codes[i] >= 65 /\ codes[i] <= 90 THEN codes[i] + 32 ELSE codes[i]]

RECURSIVE Trim(_)
Trim(codes) ==
  IF codes = <<>> THEN <<>>
  ELSE IF Head(codes) = 32 THEN Trim(Tail(codes))
  ELSE IF codes[Len(codes)] = 32 THEN Trim(SubSeq(codes, 1, Len(codes) - 1))
  ELSE codes

Normalized(label) == Trim(LowerCase(CharCodes(label)))

\* C4: processConceptNode targets the same node id for two concept labels
\* exactly when their lower-cased, trimmed forms are equal.
C4_IdOfNormalizedLabel ==
  (idKind = "concept" /\ idRes # <<>>)
  => (idRes[1] = idRes[2] <=> Normalized(idArgs[1]) = Normalized(idArgs[2]))

\* C28: generateNodeId returns distinct identifiers for any two distinct
\* URLs, so the page node of one URL is never the page node of another.
C28_PageIdsInjective ==
  (idKind = "page" /\ idRes # <<>> /\ idArgs[1] # idArgs[2])
  => idRes[1] # idRes[2]

\* ------------------------------------------------------------------------
\* SpecQueue: callers of callGeminiAPI, processQueue's loop, the network
\* ------------------------------------------------------------------------

\* rateLimitQueue.shift(): the oldest task and the tasks left.
Shift_Newest(queue) ==
  [task |-> queue[Len(queue)], rest |-> SubSeq(queue, 1, Len(queue) - 1)]

Shift(queue) ==
  [task |-> Head(queue), rest |-> Tail(queue)]

\* if (!this.isProcessing) this.processQueue()
StartsWorker_Always(busy) == TRUE

StartsWorker(busy) == ~busy

\* A rejection that escapes the task and ends processQueue where it stands.
AfterTask_Uncaught(w, failed) ==
  [worker EXCEPT ![w] = IF failed THEN NoWorker ELSE [@ EXCEPT !.st = "loop"]]

\* The task has settled its call: its catch turned a failure into reject(),
\* processQueue's try/catch stands behind it, and await task() resolves.
AfterTask(w, failed) ==
  [worker EXCEPT ![w].st = "loop"]

\* fetch(...) is called for task t by loop w.
Fetching(w, t) ==
  [st |-> "fetch", task |-> t, wake |-> 0]

\* History of a started fetch: its call, when it started, when the fetch
\* before it settled, and how many tasks were waiting in the queue.
Request(t, waiting) ==
  [call |-> t, start |-> clock, prev |-> lastSettled, waiting |-> waiting]

\* The loop of processQueue from its head to the next await: leave when the
\* queue is empty, or shift a task and run it up to setTimeout or fetch.
LoopHead(w, queue) ==
  IF queue = <<>>
  THEN /\ gpIsProcessing' = FALSE
       /\ worker' = [worker EXCEPT ![w] = NoWorker]
       /\ rateLimitQueue' = queue
       /\ UNCHANGED requests
  ELSE LET s == Shift(queue)
           timeSinceLastCall == clock - lastApiCall
       IN /\ gpIsProcessing' = TRUE
          /\ rateLimitQueue' = s.rest
          /\ IF timeSinceLastCall < RateLimitDelay
             THEN /\ worker' = [worker EXCEPT ![w] =
                       [st |-> "timer", task |-> s.task,
                        wake |-> clock + (RateLimitDelay - timeSinceLastCall)]]
                  /\ UNCHANGED requests
             ELSE /\ worker' = [worker EXCEPT ![w] = Fetching(w, s.task)]
                  /\ requests' = Append(requests, Request(s.task, Len(s.rest)))

\* callGeminiAPI: push the task; start processQueue unless one is running.
CallGeminiApi(c) ==
  /\ call[c] = "new"
  /\ call' = [call EXCEPT ![c] = "queued"]
  /\ enqueued' = Append(enqueued, c)
  /\ IF StartsWorker(gpIsProcessing)
     THEN LoopHead(c, Append(rateLimitQueue, c))
     ELSE /\ rateLimitQueue' = Append(rateLimitQueue, c)
          /\ UNCHANGED <<gpIsProcessing, worker, requests>>
  /\ UNCHANGED <<pipelineVars, idVars, unitVars, clock, lastApiCall, lastSettled>>

\* The setTimeout of the task ends: fetch is called.
TimerFires(w) ==
  /\ worker[w].st = "timer"
  /\ clock >= worker[w].wake
  /\ worker' = [worker EXCEPT ![w] = Fetching(w, worker[w].task)]
  /\ requests' = Append(requests,
                       Request(worker[w].task, Len(rateLimitQueue)))
  /\ UNCHANGED <<pipelineVars, idVars, unitVars, clock, rateLimitQueue, gpIsProcessing,
                 lastApiCall, call, enqueued, lastSettled>>

\* fetch settles: it rejects on a network error (the catch rejects the call,
\* lastApiCall is not assigned), or it resolves and lastApiCall = Date.now();
\* a non-2xx response then throws, a 2xx one goes on to response.json().
FetchSettles(w, outcome) ==
  /\ worker[w].st = "fetch"
  /\ lastSettled' = clock
  /\ lastApiCall' = IF outcome = "network_error" THEN lastApiCall ELSE clock
  /\ IF outcome = "ok"
     THEN /\ worker' = [worker EXCEPT ![w].st = "json"]
          /\ UNCHANGED call
     ELSE /\ worker' = AfterTask(w, TRUE)
          /\ call' = [call EXCEPT ![worker[w].task] = "rejected"]
  /\ UNCHANGED <<pipelineVars, idVars, unitVars, clock, rateLimitQueue, gpIsProcessing,
                 enqueued, requests>>

\* response.json() settles: the call resolves with the text, or rejects.
JsonSettles(w, outcome) ==
  /\ worker[w].st = "json"
  /\ worker' = AfterTask(w, outcome # "text")
  /\ call' = [call EXCEPT ![worker[w].task] =
                IF outcome = "text" THEN "resolved" ELSE "rejected"]
  /\ UNCHANGED <<pipelineVars, idVars, unitVars, clock, rateLimitQueue, gpIsProcessing,
                 lastApiCall, enqueued, requests, lastSettled>>

\* await task() returns in processQueue: back to the head of the loop.
TaskReturns(w) ==
  /\ worker[w].st = "loop"
  /\ LoopHead(w, rateLimitQueue)
  /\ UNCHANGED <<pipelineVars, idVars, unitVars, clock, lastApiCall, call, enqueued,
                 lastSettled>>

\* Date.now() moves on: up to MaxClock, and beyond it while a setTimeout is
\* pending.
ClockTick ==
  /\ \/ clock + TickMs <= MaxClock
     \/ \E w \in Calls : worker[w].st = "timer" /\ clock < worker[w].wake
  /\ clock' = clock + TickMs
  /\ UNCHANGED <<pipelineVars, idVars, unitVars, rateLimitQueue, gpIsProcessing,
                 lastApiCall, call, worker, enqueued, requests, lastSettled>>

InitQueueSpec ==
  /\ now = 1
  /\ InitStore
  /\ InitProcs
  /\ InitHist
  /\ InitIds
  /\ InitQueue
  /\ InitUnits

\* The calls are numbered in the order in which they are made.
NextCall == Len(enqueued) + 1

NextQueue ==
  \/ \E c \in Calls : c = NextCall /\ CallGeminiApi(c)
  \/ \E w \in Calls : TimerFires(w)
  \/ \E w \in Calls : \E o \in {"network_error", "http_error", "ok"} :
       FetchSettles(w, o)
  \/ \E w \in Calls : \E o \in {"text", "invalid"} : JsonSettles(w, o)
  \/ \E w \in Calls : TaskReturns(w)
  \/ ClockTick

SpecQueue == InitQueueSpec /\ [][NextQueue]_vars

\* The calls of the requests started so far, in the order of their start.
Started == [i \in 1..Len(requests) |-> requests[i].call]

\* C8: the external requests start in the order in which their calls were
\* pushed on rateLimitQueue: the started calls are a prefix of the pushed ones.
C8_Fifo ==
  /\ Len(requests) <= Len(enqueued)
  /\ Started = SubSeq(enqueued, 1, Len(requests))

\* C8 witness: every call's request has started, and another call was
\* waiting in the queue when the second request started.
C8_Witness ==
  /\ Len(requests) = NCalls
  /\ requests[2].waiting >= 1

\* C9: every request starts at least rateLimitDelay after the previous
\* request settled, whatever the previous request's outcome.
C9_MinimumSpacing ==
  \A i \in 1..Len(requests) :
    requests[i].prev >= 0 => requests[i].start - requests[i].prev >= RateLimitDelay

InFlight == {w \in Calls : worker[w].st \in {"fetch", "json"}}
ActiveLoops == {w \in Calls : worker[w].st # "none"}

\* C10: at most one request is in flight and at most one processQueue loop
\* is active, however many calls are pending.
C10_SingleInFlight ==
  /\ Cardinality(InFlight) <= 1
  /\ Cardinality(ActiveLoops) <= 1
  /\ gpIsProcessing <=> ActiveLoops # {}

\* One request in flight with two more calls pending behind it.
C10_Witness ==
  /\ Cardinality(InFlight) = 1
  /\ Len(rateLimitQueue) >= 2

\* ------------------------------------------------------------------------
\* SpecQueueLive: the queue when timers fire, requests settle and awaits
\* resume
\* ------------------------------------------------------------------------

\* The event loop runs every timer and every continuation that is ready,
\* time passes, and every request responds or fails.
QueueFairness ==
  /\ WF_vars(\E w \in Calls : TimerFires(w))
  /\ WF_vars(\E w \in Calls : \E o \in {"network_error", "http_error", "ok"} :
               FetchSettles(w, o))
  /\ WF_vars(\E w \in Calls : \E o \in {"text", "invalid"} : JsonSettles(w, o))
  /\ WF_vars(\E w \in Calls : TaskReturns(w))
  /\ WF_vars(ClockTick)

SpecQueueLive == InitQueueSpec /\ [][NextQueue]_vars /\ QueueFairness

Settled(c) == call[c] \in {"resolved", "rejected"}

\* C11: every call pushed on rateLimitQueue is in time taken from it and its
\* promise settled, whatever happened to the calls before it (whenever calls
\* are pending, a state follows in which every call made is settled; a
\* settled call stays settled), and no task waits in the queue while no
\* processQueue loop is active.
C11_QueueNeverHalts ==
  /\ (\E c \in Calls : call[c] = "queued")
       ~> (\A c \in Calls : call[c] = "new" \/ Settled(c))
  /\ [](rateLimitQueue # <<>> => (gpIsProcessing /\ ActiveLoops # {}))

\* C11 witness: the first call pushed was rejected, and a call pushed behind
\* it while its request was in flight has been settled all the same.
C11_Witness ==
  /\ Len(requests) >= 2
  /\ requests[1].call = enqueued[1]
  /\ call[enqueued[1]] = "rejected"
  /\ call[enqueued[2]] = "resolved"
  /\ rateLimitQueue = <<>>
  /\ ~gpIsProcessing

\* ------------------------------------------------------------------------
\* GeminiProcessor: JSON values and the response parsers
\* ------------------------------------------------------------------------

\* The property names the parsers read.
Fields == {"concepts", "summary", "contentType", "relatedConcepts",
           "searchIntent", "status"}

\* A JSON value one level below the top: kind, its text when it is a
\* string, its strings when it is an array of strings, and, for an element
\* of a relationships array, its concept and whether similarity is a number.
Leaf(kind, str, items) ==
  [kind |-> kind, str |-> str, items |-> items, concept |-> "",
   similarityIsNumber |-> FALSE]
Undefined == Leaf("undefined", "", <<>>)
JsonNull == Leaf("null", "", <<>>)
Str(text) == Leaf("string", text, <<>>)
Strings(items) == Leaf("array", "", items)
Relationship(concept, isNumber) ==
  [kind |-> "object", str |-> "", items |-> <<>>, concept |-> concept,
   similarityIsNumber |-> isNumber]

NoProps == [f \in Fields |-> Undefined]

\* A JSON value at the top: kind, properties of an object, elements of an
\* array.
Json(kind, props, elems) == [kind |-> kind, props |-> props, elems |-> elems]
SyntaxError == Json("throws", NoProps, <<>>)

\* The texts the model can answer with; <fence> stands for the three
\* backquotes of a markdown code fence.
ResponseTexts ==
  { "I cannot help", "null", "\"hello\"", "42", "[\"AI\"]", "{}",
    "{\"summary\":\"s\"}",
    "{\"concepts\":\"AI\",\"summary\":\"s\"}",
    "{\"concepts\":[\"AI\",\"Ethics\"],\"summary\":\"s\",\"contentType\":\"research\"}",
    "<fence>json\n{\"concepts\":[\"AI\",\"Ethics\"],\"summary\":\"s\",\"contentType\":\"research\"}\n<fence>",
    "[{\"concept\":\"AI\",\"similarity\":0.8},{\"concept\":\"Ethics\",\"similarity\":\"high\"}]",
    "[null]",
    "{\"relatedConcepts\":[\"AI\"],\"searchIntent\":\"research\"}",
    "{\"status\":\"connected\"}" }

\* The response without its markdown code fence (written <fence> here) and
\* trimmed.
CleanResponse(text) ==
  IF text = "<fence>json\n{\"concepts\":[\"AI\",\"Ethics\"],\"summary\":\"s\",\"contentType\":\"research\"}\n<fence>"
  THEN "{\"concepts\":[\"AI\",\"Ethics\"],\"summary\":\"s\",\"contentType\":\"research\"}"
  ELSE text

\* JSON.parse of the cleaned texts.
JsonParse(text) ==
  CASE text = "null" -> Json("null", NoProps, <<>>)
    [] text = "\"hello\"" -> Json("string", NoProps, <<>>)
    [] text = "42" -> Json("number", NoProps, <<>>)
    [] text = "[\"AI\"]" -> Json("array", NoProps, <<Str("AI")>>)
    [] text = "{}" -> Json("object", NoProps, <<>>)
    [] text = "{\"summary\":\"s\"}" ->
         Json("object", [NoProps EXCEPT !["summary"] = Str("s")], <<>>)
    [] text = "{\"concepts\":\"AI\",\"summary\":\"s\"}" ->
         Json("object", [NoProps EXCEPT !["concepts"] = Str("AI"),
                                        !["summary"] = Str("s")], <<>>)
    [] text = "{\"concepts\":[\"AI\",\"Ethics\"],\"summary\":\"s\",\"contentType\":\"research\"}" ->
         Json("object",
              [NoProps EXCEPT !["concepts"] = Strings(<<"AI", "Ethics">>),
                              !["summary"] = Str("s"),
                              !["contentType"] = Str("research")], <<>>)
    [] text = "[{\"concept\":\"AI\",\"similarity\":0.8},{\"concept\":\"Ethics\",\"similarity\":\"high\"}]" ->
         Json("array", NoProps,
              <<Relationship("AI", TRUE), Relationship("Ethics", FALSE)>>)
    [] text = "[null]" -> Json("array", NoProps, <<JsonNull>>)
    [] text = "{\"relatedConcepts\":[\"AI\"],\"searchIntent\":\"research\"}" ->
         Json("object",
              [NoProps EXCEPT !["relatedConcepts"] = Strings(<<"AI">>),
                              !["searchIntent"] = Str("research")], <<>>)
    [] text = "{\"status\":\"connected\"}" ->
         Json("object", [NoProps EXCEPT !["status"] = Str("connected")], <<>>)
    [] OTHER -> SyntaxError

\* Reading a property of null or undefined throws a TypeError.
ReadThrows(value) == value.kind \in {"null", "undefined"}

\* value[field]: a property of an object, undefined on a string, a number
\* or an array.
Get(value, field) ==
  IF value.kind = "object" THEN value.props[field] ELSE Undefined

\* leaf || fallback
OrElse(leaf, fallback) ==
  IF leaf.kind \in {"undefined", "null"} \/ (leaf.kind = "string" /\ leaf.str = "")
  THEN fallback ELSE leaf

MaxConcepts == 10
MaxRelationships == 10

Slice(seq, n) == SubSeq(seq, 1, Min(Len(seq), n))

\* What a method returns: null, a GeminiAnalysis, a list, or a boolean.
Bool(b) ==
  [kind |-> IF b THEN "true" ELSE "false", concepts |-> <<>>,
   summary |-> Undefined, contentType |-> Undefined, list |-> <<>>]
Null == [kind |-> "null", concepts |-> <<>>, summary |-> Undefined,
         contentType |-> Undefined, list |-> <<>>]
Analysis(concepts, summary, contentType) ==
  [kind |-> "analysis", concepts |-> concepts, summary |-> summary,
   contentType |-> contentType, list |-> <<>>]
List(items) ==
  [kind |-> "list", concepts |-> <<>>, summary |-> Undefined,
   contentType |-> Undefined, list |-> items]

\* parseGeminiResponse: null when JSON.parse or a property read throws, else
\* an analysis with a default for each field that is missing.
ParseGeminiResponse(response) ==
  LET parsed == JsonParse(CleanResponse(response))
  IN IF parsed.kind = "throws" \/ ReadThrows(parsed) THEN Null
     ELSE Analysis(
            IF Get(parsed, "concepts").kind = "array"
            THEN Slice(Get(parsed, "concepts").items, MaxConcepts) ELSE <<>>,
            OrElse(Get(parsed, "summary"), Str("")),
            OrElse(Get(parsed, "contentType"), Str("article")))

\* parseRelationshipsResponse: the elements of an array that have a concept
\* and a numeric similarity; [] for anything else and when something throws.
ParseRelationshipsResponse(response) ==
  LET parsed == JsonParse(CleanResponse(response))
  IN IF parsed.kind # "array" THEN List(<<>>)
     ELSE IF \E i \in 1..Len(parsed.elems) : ReadThrows(parsed.elems[i])
     THEN List(<<>>)
     ELSE List(Slice(SelectSeq(parsed.elems,
                               LAMBDA item : item.concept # ""
                                             /\ item.similarityIsNumber),
                     MaxRelationships))

\* parseSearchResponse: the parsed JSON, or a default object when JSON.parse
\* throws.
ParseSearchResponse(response) ==
  LET parsed == JsonParse(CleanResponse(response))
  IN IF parsed.kind = "throws"
     THEN Json("object", [NoProps EXCEPT !["searchIntent"] = Str("general"),
                                         !["relatedConcepts"] = Strings(<<>>)],
               <<>>)
     ELSE parsed

\* ------------------------------------------------------------------------
\* SpecClient: one call of a public method of GeminiProcessor
\* ------------------------------------------------------------------------

Methods ==
  {"analyzeContent", "findRelationships", "semanticSearch", "testConnection"}

\* How the promise of callGeminiAPI is rejected: fetch rejects, the status
\* is not 2xx, or the response holds no generated text.
Rejections == {"network_error", "http_error", "no_text"}

\* What each method returns when it has nothing: null, [] or false.
EmptyResult(method) ==
  CASE method = "analyzeContent" -> Null
    [] method = "testConnection" -> Bool(FALSE)
    [] OTHER -> List(<<>>)

Returned(value) == [raised |-> FALSE, value |-> value]

\* A method without its try/catch: the rejection reaches the caller.
OnRejected_Rethrows(method) == [raised |-> TRUE, value |-> EmptyResult(method)]

\* The catch around await this.callGeminiAPI(prompt) in each method.
OnRejected(method) == Returned(EmptyResult(method))

\* The guard at the head of each method.
ReturnsAtOnce(method, hasKey, existingConcepts) ==
  \/ ~hasKey
  \/ method = "findRelationships" /\ Len(existingConcepts) = 0

\* The rest of each method's try block once callGeminiAPI resolved.
OnResolved(method, response) ==
  CASE method = "analyzeContent" -> Returned(ParseGeminiResponse(response))
    [] method = "findRelationships" ->
         Returned(ParseRelationshipsResponse(response))
    [] method = "semanticSearch" ->
         LET analysis == ParseSearchResponse(response)
         IN IF ReadThrows(analysis) THEN OnRejected(method)
            ELSE Returned(List(<<
                   [relevanceScore |-> 1,
                    matchedConcepts |->
                      OrElse(Get(analysis, "relatedConcepts"), Strings(<<>>)),
                    searchIntent |-> Get(analysis, "searchIntent")]>>))
    [] OTHER ->
         LET parsed == JsonParse(CleanResponse(response))
         IN IF parsed.kind = "throws" \/ ReadThrows(parsed)
            THEN OnRejected(method)
            ELSE Returned(Bool(Get(parsed, "status") = Str("connected")))

Finish(result) ==
  /\ clPc' = IF result.raised THEN "raised" ELSE "returned"
  /\ clResult' = result.value

\* The method is called: it returns at once, or awaits callGeminiAPI.
ClientCall ==
  /\ clPc = "start"
  /\ IF ReturnsAtOnce(clMethod, clKey, clConcepts)
     THEN Finish(Returned(EmptyResult(clMethod)))
     ELSE clPc' = "awaiting" /\ UNCHANGED clResult
  /\ UNCHANGED <<pipelineVars, queueVars, idVars, fnVars, compVars, clMethod, clKey,
                 clConcepts, clSettled>>

\* callGeminiAPI rejects.
ApiRejects(why) ==
  /\ clPc = "awaiting"
  /\ clSettled' = <<why>>
  /\ Finish(OnRejected(clMethod))
  /\ UNCHANGED <<pipelineVars, queueVars, idVars, fnVars, compVars, clMethod, clKey,
                 clConcepts>>

\* callGeminiAPI resolves with the generated text.
ApiResolves(response) ==
  /\ clPc = "awaiting"
  /\ clSettled' = <<"text", response>>
  /\ Finish(OnResolved(clMethod, response))
  /\ UNCHANGED <<pipelineVars, queueVars, idVars, fnVars, compVars, clMethod, clKey,
                 clConcepts>>

InitClientSpec ==
  /\ now = 1
  /\ InitStore
  /\ InitProcs
  /\ InitHist
  /\ InitIds
  /\ InitQueue
  /\ InitFn
  /\ InitComp
  /\ clMethod \in Methods
  /\ clKey \in BOOLEAN
  /\ clConcepts \in {<<>>, <<"AI">>}
  /\ clPc = "start"
  /\ clSettled = <<>>
  /\ clResult = <<>>

NextClient ==
  \/ ClientCall
  \/ \E why \in Rejections : ApiRejects(why)
  \/ \E response \in ResponseTexts : ApiResolves(response)

SpecClient == InitClientSpec /\ [][NextClient]_vars

\* The call met one of the failures: no API key, or a rejected request.
FailureCase ==
  /\ clPc \in {"returned", "raised"}
  /\ \/ ~clKey
     \/ clSettled # <<>> /\ clSettled[1] \in Rejections

\* C12: no method raises to its caller; without an API key, on a network
\* error, on a non-2xx status and on a response without generated text
\* analyzeContent returns null, and findRelationships and semanticSearch
\* return an empty list.
C12_NeverRaises ==
  /\ clPc # "raised"
  /\ (FailureCase /\ clMethod = "analyzeContent") => clResult = Null
  /\ (FailureCase /\ clMethod \in {"findRelationships", "semanticSearch"})
       => clResult = List(<<>>)

\* C12 witness: analyzeContent, with an API key, returned null after a
\* network error.
C12_Witness ==
  /\ clMethod = "analyzeContent"
  /\ clKey
  /\ clPc = "returned"
  /\ clSettled = <<"network_error">>
  /\ clResult = Null

\* The text is not JSON, or is JSON that is no object with a concepts array
\* and a summary string.
SchemaMismatch(response) ==
  LET parsed == JsonParse(CleanResponse(response))
  IN \/ parsed.kind # "object"
     \/ Get(parsed, "concepts").kind # "array"
     \/ Get(parsed, "summary").kind # "string"

\* C20: analyzeContent returns null whenever the generated text is not valid
\* JSON or is valid JSON that does not match the analysis schema.
C20_MismatchGivesNull ==
  (/\ clMethod = "analyzeContent"
   /\ clPc = "returned"
   /\ clSettled # <<>>
   /\ clSettled[1] = "text"
   /\ SchemaMismatch(clSettled[2]))
  => clResult = Null

\* ------------------------------------------------------------------------
\* SpecImportance: calculateImportance applied to a page and an analysis
\* ------------------------------------------------------------------------

\* Word counts around the cap of the base score, content types with and
\* without a boost, and concept counts up to and beyond the parser's limit.
WordCounts == {0, 1, 999, 4999, 5000, 5001, 100000}
ContentTypes == {"article", "research", "documentation", "blog"}
ConceptCounts == 0..(MaxConcepts + 2)

InitImportance ==
  /\ now = 1
  /\ InitStore
  /\ InitProcs
  /\ InitHist
  /\ InitIds
  /\ InitQueue
  /\ InitClient
  /\ InitComp
  /\ fn = "calculateImportance"
  /\ fnArgs \in WordCounts \X ContentTypes \X ConceptCounts
  /\ fnRes = <<>>

\* updateKnowledgeGraph computes the importance of the page node.
ImportanceCall ==
  /\ fn = "calculateImportance"
  /\ fnRes = <<>>
  /\ fnRes' = <<CalculateImportance(
                  [wordCount |-> fnArgs[1], contentType |-> fnArgs[2]],
                  [i \in 1..fnArgs[3] |-> "AI"])>>
  /\ UNCHANGED <<pipelineVars, queueVars, idVars, clientVars, compVars, fn, fnArgs>>

NextImportance == ImportanceCall

SpecImportance == InitImportance /\ [][NextImportance]_vars

\* C14: for every word count, content type and concept count,
\* calculateImportance returns a value from 0 to 10 (in thousandths).
C14_ImportanceClamp ==
  (fn = "calculateImportance" /\ fnRes # <<>>)
  => (fnRes[1] >= 0 /\ fnRes[1] <= 10 * 1000)

\* C14 witness: a long research page with ten concepts scores 5 + 3 + 3 and
\* is given 10.
C14_Witness ==
  /\ fn = "calculateImportance"
  /\ fnArgs = <<100000, "research", 10>>
  /\ fnRes = <<10 * 1000>>

\* ------------------------------------------------------------------------
\* SpecMentions: ingestions whose analyses mention one concept many times
\* ------------------------------------------------------------------------

\* An analysis with the most concepts the parser lets through, all with one
\* concept id ("Machine learning" and "Machine vision" share theirs).
ManyMentions ==
  [i \in 1..MaxConcepts |->
     IF i % 2 = 1 THEN "Machine learning" ELSE "Machine vision"]

MentionOutcomes ==
  {[ok |-> TRUE, concepts |-> cs] : cs \in {ManyMentions, <<"AI", "Ethics">>}}

InitMentions ==
  /\ now = 1
  /\ InitStore
  /\ InitProcs
  /\ InitHist
  /\ InitIds
  /\ InitQueue
  /\ InitUnits

NextMentions ==
  \/ AllIdle /\ prevNodes' = nodes
       /\ \E page \in Pages : ProcessTab(1, page.url)
  \/ AllIdle /\ prevNodes' = nodes
       /\ \E page \in Pages : ProcessContentMessage(1, page)
  \/ ContentStep(1, MentionOutcomes)
  \/ GraphStep(1)

SpecMentions == InitMentions /\ [][NextMentions]_vars

\* C15: every stored node, page or concept, has an importance from 0 to 10
\* (in thousandths), however often a concept is mentioned.
C15_StoredImportanceInRange ==
  \A i \in 1..Len(nodes) :
    nodes[i].importance >= 0 /\ nodes[i].importance <= 10 * 1000

\* ------------------------------------------------------------------------
\* SpecEvict: ingestions interleaved with the eviction pass at every await
\* ------------------------------------------------------------------------

InitEvict ==
  /\ now = 1
  /\ InitStore
  /\ InitProcs
  /\ InitHist
  /\ InitIds
  /\ InitQueue
  /\ InitUnits

\* The pages ingested while eviction passes run, and their analyses.
EvictPages == {page \in ConcurrentPages : page.url # "https://www.b.io/y"}

EvictOutcomes == {a \in AnalysisOutcomes : a.concepts = <<"AI", "Ethics">>}

\* Call chain 1 ingests PROCESS_CONTENT messages; call chain 2 is the
\* scheduleCleanup of a service worker that starts.  Days pass between
\* eviction passes, not within one.
NextEvict ==
  \/ UNCHANGED prevNodes /\ \E page \in EvictPages :
       ProcessContentMessage(1, page)
  \/ DedupCheck(1)
  \/ AnalyzeDone(1, EvictOutcomes)
  \/ StoreRead(1)
  \/ StoreWrite(1)
  \/ GraphStep(1)
  \/ UNCHANGED prevNodes /\ ScheduleCleanup(2)
  \/ CleanupStep(2)
  \/ pc[2] = "idle" /\ \E d \in {MaxAge, MaxAge + 1} : Tick(d)

SpecEvict == InitEvict /\ [][NextEvict]_vars

\* The step in which the eviction pass of call chain p completes.
PassCompletes(p) == pc[p] = "cleanWrite" /\ pc'[p] = "idle"

\* C16: when an eviction pass completes, the content archive holds no item
\* and the nodes hold no page node with a timestamp older than now - maxAge.
C16_NothingOldAfterEviction ==
  [][\A p \in Procs :
       PassCompletes(p)
       => /\ \A i \in 1..Len(content') : ~(content'[i].timestamp < now - MaxAge)
          /\ \A i \in 1..Len(nodes') :
               nodes'[i].type = "page"
               => ~(nodes'[i].timestamp < now - MaxAge)]_vars

\* C16 witness: a pass has completed that removed an old item and an old
\* page node and kept a recent item and a recent page node.
C16_Witness ==
  /\ evictions >= 1
  /\ now - MaxAge > 1
  /\ pc[2] = "idle"
  /\ lastCleanup = now
  /\ \E e \in Range(Analysed) :
       /\ \A i \in 1..Len(content) : content[i].url # e.url
       /\ FindIndex(nodes, PageIdOf[e.url]) = 0
  /\ \E i \in 1..Len(content) : content[i].timestamp > now - MaxAge
  /\ \E i \in 1..Len(nodes) : nodes[i].type = "page"

\* The ids of the page nodes that the step removes from the node collection.
RemovedPageIds ==
  {n.id : n \in {m \in Range(nodes) : m.type = "page"}}
    \ {n.id : n \in Range(nodes')}

\* C17: when an eviction pass completes, no stored edge has a source or a
\* target equal to the id of a page node that the pass removed.
C17_NoEdgeOfRemovedPage ==
  [][\A p \in Procs :
       PassCompletes(p)
       => \A i \in 1..Len(edges') :
            /\ edges'[i].source \notin RemovedPageIds
            /\ edges'[i].target \notin RemovedPageIds]_vars

\* C18: no two entries of the persisted node collection have the same id,
\* whatever the interleaving of the ingestion's addGraphNode and
\* updateGraphNode calls with clearOldData.
C18_NodeIdsUnique ==
  \A i, j \in 1..Len(nodes) : i # j => nodes[i].id # nodes[j].id

\* C18 witness: an eviction pass has completed, and after it a page node was
\* added again and a concept node was updated by a second page.
C18_Witness ==
  /\ evictions >= 1
  /\ Len(nodes) >= 3
  /\ \E i \in 1..Len(nodes) :
       nodes[i].type = "page" /\ nodes[i].timestamp = now
  /\ \E i \in 1..Len(nodes) :
       nodes[i].type = "concept" /\ Len(nodes[i].connectedPages) >= 2

\* ------------------------------------------------------------------------
\* SpecArchive: sequences of storeProcessedContent and clearOldData calls
\* on the content archive, with the cap scaled down to SmallCap entries
\* ------------------------------------------------------------------------

\* The cap that stands for the 1000 of slice(0, 1000).
SmallCap == 2

ArchiveUrls == Urls \cup {"http://d.net/w"}

\* A ProcessedContent for url, captured at time t.
ArchiveItem(url, t) ==
  [nodeId |-> PageNodeId(url), url |-> url, title |-> "t1", timestamp |-> t,
   wordCount |-> 500, contentType |-> "article", concepts |-> <<>>]

\* The capture times of an item stored now: captures of overlapping
\* ingestions may be stored out of order.
CaptureTimes == {t \in {now - 1, now} : t >= 1}

InitArchive ==
  /\ now = 1
  /\ InitStore
  /\ InitProcs
  /\ InitHist
  /\ InitIds
  /\ InitQueue
  /\ InitUnits

\* storeProcessedContent(item) runs to completion; fnRes records how many
\* entries the slice dropped.
ArchiveStore(item) ==
  /\ content' = KeepMostRecent(content, item, SmallCap)
  /\ fn' = "storeProcessedContent"
  /\ fnArgs' = <<item>>
  /\ fnRes' = <<Len(SelectSeq(content, LAMBDA c : c.url # item.url)) + 1
                  - Len(content')>>
  /\ UNCHANGED <<idVars, queueVars, clientVars, compVars, now, nodes, edges, lastCleanup,
                 procVars, histVars>>

\* clearOldData() runs to completion; only the archive is of interest here.
ArchiveClear ==
  /\ content' = RecentContent(content, now - MaxAge)
  /\ fn' = "clearOldData"
  /\ fnArgs' = <<>>
  /\ fnRes' = <<>>
  /\ UNCHANGED <<idVars, queueVars, clientVars, compVars, now, nodes, edges, lastCleanup,
                 procVars, histVars>>

NextArchive ==
  \/ \E url \in ArchiveUrls, t \in CaptureTimes : ArchiveStore(ArchiveItem(url, t))
  \/ ArchiveClear
  \/ \E d \in {1, MaxAge} : Tick(d)

SpecArchive == InitArchive /\ [][NextArchive]_vars

\* The archive holds at most cap entries, one per URL, newest first.
ArchiveOk(archive, cap) ==
  /\ Len(archive) <= cap
  /\ \A i, j \in 1..Len(archive) : i # j => archive[i].url # archive[j].url
  /\ \A i \in 1..(Len(archive) - 1) :
       archive[i].timestamp >= archive[i + 1].timestamp

\* The entries a storeProcessedContent step leaves out of the archive: those
\* of the old archive with another URL, and the item, that are not kept.
Dropped ==
  (Range(SelectSeq(content, LAMBDA c : c.url # fnArgs'[1].url))
     \cup {fnArgs'[1]}) \ Range(content')

\* C19: after every storeProcessedContent and clearOldData call the archive
\* holds at most the cap of entries, at most one entry per URL, in
\* non-increasing timestamp order; and the entries a storeProcessedContent
\* call drops at the cap are not newer than any entry it keeps.
C19_ArchiveInvariant ==
  [][/\ ArchiveOk(content', Min(SmallCap, ArchiveCap))
     /\ fn' = "storeProcessedContent"
          => \A d \in Dropped : \A i \in 1..Len(content') :
               d.timestamp <= content'[i].timestamp]_vars

\* C19 witness: a storeProcessedContent call on a full archive kept the new
\* item and dropped an entry, and the archive holds entries of different
\* timestamps.
C19_Witness ==
  /\ fn = "storeProcessedContent"
  /\ fnRes[1] >= 1
  /\ Len(content) = SmallCap
  /\ fnArgs[1] \in Range(content)
  /\ \E i, j \in 1..Len(content) : content[i].timestamp > content[j].timestamp

\* ------------------------------------------------------------------------
\* SpecKey: the API key, saved by GeminiProcessor.setApiKey and by the popup
\* ------------------------------------------------------------------------

MaxKeyOps == 3

\* 'AIza' and a filler character, as code units.
AIza == <<65, 73, 122, 97>>
Space == 32
KeyMinLength == 20

\* A key of n code units after the given prefix.
KeyOf(prefix, n) == prefix \o [i \in 1..n |-> 120]

\* ConfigManager.DEFAULT_API_KEY: 39 characters starting with 'AIza'.
DefaultApiKey == KeyOf(AIza, 35)

\* What a caller passes or the user types: a well-formed key, one that is
\* one character too short, one with another prefix, a well-formed key
\* between spaces, spaces only, and nothing.
KeyInputs ==
  { KeyOf(AIza, KeyMinLength - 3),
    KeyOf(AIza, KeyMinLength - 4),
    KeyOf(<<66, 73, 122, 97>>, KeyMinLength - 3),
    <<Space>> \o KeyOf(AIza, KeyMinLength - 3) \o <<Space>>,
    <<Space, Space>>,
    <<>> }

\* ConfigManager.validateApiKey on a string.
ValidateApiKey(key) ==
  /\ Len(key) > KeyMinLength
  /\ Len(key) >= Len(AIza) /\ SubSeq(key, 1, Len(AIza)) = AIza

KeyReturn(op, key, outcome) ==
  keyLog' = Append(keyLog, [op |-> op, key |-> key, outcome |-> outcome])

\* The constructor's initializeApiKey: the stored key or the default.
InitializeApiKey ==
  /\ Len(keyLog) < MaxKeyOps
  /\ apiKey' = IF storedKey # <<>> THEN storedKey ELSE DefaultApiKey
  /\ KeyReturn("initializeApiKey", apiKey', "read")
  /\ UNCHANGED <<pipelineVars, queueVars, idVars, clientVars, fnVars, settings, hung, storedKey>>

\* ConfigManager.setGeminiApiKey: storage.sync.set resolves or rejects.
SetGeminiApiKey(key, stored) ==
  storedKey' = IF stored THEN key ELSE storedKey

\* GeminiProcessor.setApiKey(key): throws on an invalid key, else sets the
\* field and saves.
SetApiKey(key, stored) ==
  /\ Len(keyLog) < MaxKeyOps
  /\ IF ~ValidateApiKey(key)
     THEN /\ KeyReturn("setApiKey", key, "rejected")
          /\ UNCHANGED <<apiKey, storedKey>>
     ELSE /\ apiKey' = key
          /\ SetGeminiApiKey(key, stored)
          /\ KeyReturn("setApiKey", key, IF stored THEN "saved" ELSE "failed")
  /\ UNCHANGED <<pipelineVars, queueVars, idVars, clientVars, fnVars, settings, hung>>

\* PopupApp.saveSettings with this text in the key field: a non-blank text is
\* trimmed and saved.
SaveSettings(input, stored) ==
  /\ Len(keyLog) < MaxKeyOps
  /\ IF input # <<>> /\ Trim(input) # <<>>
     THEN /\ SetGeminiApiKey(Trim(input), stored)
          /\ KeyReturn("saveSettings", Trim(input),
                       IF stored THEN "saved" ELSE "failed")
     ELSE /\ KeyReturn("saveSettings", input, "skipped")
          /\ UNCHANGED storedKey
  /\ UNCHANGED <<pipelineVars, queueVars, idVars, clientVars, fnVars, settings, hung, apiKey>>

\* The popup's reset button: ConfigManager.clearGeminiApiKey.
ClearGeminiApiKey ==
  /\ Len(keyLog) < MaxKeyOps
  /\ storedKey' = <<>>
  /\ KeyReturn("clearGeminiApiKey", <<>>, "cleared")
  /\ UNCHANGED <<pipelineVars, queueVars, idVars, clientVars, fnVars, settings, hung, apiKey>>

InitKeySpec ==
  /\ now = 1
  /\ InitStore
  /\ InitProcs
  /\ InitHist
  /\ InitIds
  /\ InitQueue
  /\ InitUnits

NextKey ==
  \/ InitializeApiKey
  \/ \E key \in KeyInputs, stored \in BOOLEAN : SetApiKey(key, stored)
  \/ \E input \in KeyInputs, stored \in BOOLEAN : SaveSettings(input, stored)
  \/ ClearGeminiApiKey

SpecKey == InitKeySpec /\ [][NextKey]_vars

\* C21: after any sequence of save operations the persisted custom key is
\* absent or passes validateApiKey, and a save of an invalid key leaves the
\* in-memory and the persisted key unchanged.
C21_InvalidKeyNeverSaved ==
  [][/\ storedKey' = <<>> \/ ValidateApiKey(storedKey')
     /\ (keyLog' # keyLog /\ ~ValidateApiKey(keyLog'[Len(keyLog')].key)
          /\ keyLog'[Len(keyLog')].op \in {"setApiKey", "saveSettings"})
        => UNCHANGED <<apiKey, storedKey>>]_vars

\* ------------------------------------------------------------------------
\* SpecGate: the eligibility and length gates of the two entry points
\* ------------------------------------------------------------------------

\* String.prototype.startsWith, endsWith and includes on code units.
StartsWith(codes, prefix) ==
  Len(prefix) <= Len(codes) /\ SubSeq(codes, 1, Len(prefix)) = prefix

EndsWith(codes, suffix) ==
  /\ Len(suffix) <= Len(codes)
  /\ SubSeq(codes, Len(codes) - Len(suffix) + 1, Len(codes)) = suffix

Includes(codes, part) ==
  \E i \in 1..(Len(codes) - Len(part) + 1) :
    SubSeq(codes, i, i + Len(part) - 1) = part

\* new URL(url).hostname of the model's URLs: what stands between "://" and
\* the next '/', '?' or '#'.
Hostname(codes) ==
  LET sep == CharCodes("://")
      at == CHOOSE i \in 1..Len(codes) :
              /\ SubSeq(codes, i, i + Len(sep) - 1) = sep
              /\ \A j \in 1..(i - 1) : SubSeq(codes, j, j + Len(sep) - 1) # sep
      rest == SubSeq(codes, at + Len(sep), Len(codes))
      stops == {j \in 1..Len(rest) : rest[j] \in {47, 63, 35}}
      end == IF stops = {} THEN Len(rest) + 1
             ELSE CHOOSE j \in stops : \A k \in stops : j <= k
  IN SubSeq(rest, 1, end - 1)

SkipDomains == {"facebook.com", "twitter.com", "instagram.com", "youtube.com"}
SkipProtocols == {"chrome:", "chrome-extension:", "moz-extension:"}

\* BackgroundService.shouldProcessUrl, on a URL that new URL() accepts.
ShouldProcessUrl(url) ==
  /\ ~\E protocol \in SkipProtocols :
        StartsWith(CharCodes(url), CharCodes(protocol))
  /\ ~\E domain \in SkipDomains :
        Includes(Hostname(CharCodes(url)), CharCodes(domain))

\* ContentExtractor.shouldProcessPage: the regular expressions are plain
\* substrings and suffixes.
ShouldProcessPage(url) ==
  /\ ~StartsWith(CharCodes(url), CharCodes("chrome://"))
  /\ ~StartsWith(CharCodes(url), CharCodes("chrome-extension://"))
  /\ ~\E pattern \in {"facebook.com", "twitter.com", "instagram.com",
                      "youtube.com/watch"} :
        Includes(CharCodes(url), CharCodes(pattern))
  /\ ~EndsWith(CharCodes(url), CharCodes(".pdf"))
  /\ ~\E ext \in {".jpg", ".jpeg", ".png", ".gif", ".svg"} :
        EndsWith(LowerCase(CharCodes(url)), CharCodes(ext))

\* ContentExtractor.extractPageContent returns null below this length, and
\* isContentValid rejects below this word count.
MinChars == 100
ValidWords == 50

\* The pages a tab can show: their text has so many characters and words and
\* has or lacks a natural-language signal.
GatePage(url, chars, words, meaningful) ==
  [url |-> url, title |-> "t1", wordCount |-> words, contentType |-> "article",
   chars |-> chars, meaningful |-> meaningful]

GatePages ==
  { GatePage("https://www.a.io/x", 3000, 500, TRUE),
    GatePage("https://www.a.io/x", 3000, 500, FALSE),
    GatePage("https://www.b.io/y", 600, MinWords, TRUE),
    GatePage("https://www.b.io/y", 600, MinWords - 1, TRUE),
    GatePage("http://c.org/z", 300, ValidWords, TRUE),
    GatePage("http://c.org/z", 300, ValidWords - 1, TRUE),
    GatePage("http://c.org/a.pdf", 3000, 500, TRUE) }
    \cup {GatePage(url, 3000, 500, TRUE) : url \in GateUrls}

\* ContentExtractor.isContentValid: the word count, the natural-language
\* signal, and the checks that follow it (rest).
IsContentValid(page, rest) ==
  /\ ~(page.wordCount < ValidWords)
  /\ page.meaningful
  /\ rest

\* chrome.tabs.onUpdated with status 'complete'.
TabUpdated(p, url) ==
  /\ ShouldProcessUrl(url)
  /\ ProcessTab(p, url)

\* ContentExtractor.processPage: the page passes the script's gates and the
\* script sends PROCESS_CONTENT.
ContentScript(p, page, rest) ==
  /\ ShouldProcessPage(page.url)
  /\ ~(page.chars < MinChars)
  /\ IsContentValid(page, rest)
  /\ ProcessContentMessage(p, page)

InitGate ==
  /\ now = 1
  /\ InitStore
  /\ InitProcs
  /\ InitHist
  /\ InitIds
  /\ InitQueue
  /\ InitUnits

NextGate ==
  \/ AllIdle /\ prevNodes' = nodes
       /\ \E page \in GatePages : TabUpdated(1, page.url)
  \/ ExtractFrom(1, GatePages)
  \/ AllIdle /\ prevNodes' = nodes
       /\ \E page \in GatePages, rest \in BOOLEAN : ContentScript(1, page, rest)
  \/ DedupCheck(1)
  \/ AnalyzeDone(1, ConcurrentOutcomes)
  \/ StoreRead(1)
  \/ StoreWrite(1)
  \/ GraphStep(1)

SpecGate == InitGate /\ [][NextGate]_vars

\* C22: no ProcessedContent whose word count is below 100 is persisted,
\* whichever entry point delivered the capture.
C22_NoShortContentPersisted ==
  \A i \in 1..Len(content) : content[i].wordCount >= MinWords

\* The URL uses an internal browser scheme or its host is on the denylist.
Ineligible(url) ==
  \/ StartsWith(CharCodes(url), CharCodes("chrome:"))
  \/ StartsWith(CharCodes(url), CharCodes("chrome-extension:"))
  \/ \E domain \in SkipDomains :
       Includes(Hostname(CharCodes(url)), CharCodes(domain))

\* C23: no page with an internal browser scheme or a denylisted host is
\* ingested or persisted, through either entry point.
C23_NoIneligiblePage ==
  /\ \A p \in Procs : pc[p] # "idle" /\ job[p] \in {"tab", "msg"}
                      => ~Ineligible(loc[p].url)
  /\ \A i \in 1..Len(content) : ~Ineligible(content[i].url)
  /\ \A i \in 1..Len(nodes) :
       nodes[i].type = "page" => ~Ineligible(nodes[i].url)

\* ------------------------------------------------------------------------
\* Lost updates of the whole-collection read-modify-write operations (Spec)
\* ------------------------------------------------------------------------

\* The step in which call chain p writes the node or the edge collection.
WriteOf(p) ==
  /\ pc[p] \in {"nodeWrite", "updWrite", "edgeWrite"}
  /\ pc'[p] # pc[p]

\* What call chain p is about to write was computed from the collection as
\* it is now: no other chain wrote between p's reads and p's write.
Fresh(p) ==
  CASE pc[p] = "nodeWrite" ->
         /\ loc[p].snap = nodes
         /\ loc[p].node.type = "concept" => FindIndex(nodes, loc[p].node.id) = 0
    [] pc[p] = "updWrite" ->
         /\ loc[p].snap = nodes
         /\ FindIndex(nodes, loc[p].node.id) # 0
         /\ loc[p].node
              = UpdatedConceptNode(nodes[FindIndex(nodes, loc[p].node.id)],
                                   PageIdOf[loc[p].cap.url])
    [] pc[p] = "edgeWrite" -> loc[p].snap = edges
    [] OTHER -> FALSE

\* The step removes a node, a back-reference of a node, or an edge.
LosesEntry ==
  \/ \E i \in 1..Len(nodes) :
       LET j == FindIndex(nodes', nodes[i].id)
       IN \/ j = 0
          \/ ~(Range(nodes[i].connectedPages)
                 \subseteq Range(nodes'[j].connectedPages))
  \/ \E i \in 1..Len(edges) : FindIndex(edges', edges[i].id) = 0

\* C24: a whole-collection write that is not interleaved with another write
\* loses nothing; a write made by one of two overlapping ingestions can be
\* missing afterwards (the witness).
C24_OnlyInterleavedWritesLose ==
  [][\A p \in Procs : (WriteOf(p) /\ Fresh(p)) => ~LosesEntry]_vars

\* C24 witness: two ingestions of pages with different URLs and different
\* page ids that share a concept have both returned, and the concept's node
\* lacks the back-reference to one of the two pages.
C24_Witness ==
  /\ AllIdle
  /\ Len(log) = 2
  /\ Len(Analysed) = 2
  /\ log[1].url # log[2].url
  /\ PageIdOf[log[1].url] # PageIdOf[log[2].url]
  /\ \E c \in Range(log[1].concepts) \cap Range(log[2].concepts) :
       /\ FindIndex(nodes, ConceptIdOf[c]) # 0
       /\ \E k \in 1..2 :
            PageIdOf[log[k].url]
              \notin Range(nodes[FindIndex(nodes, ConceptIdOf[c])].connectedPages)

\* ------------------------------------------------------------------------
\* The concept upsert of processConceptNode (SpecSeq)
\* ------------------------------------------------------------------------

\* The node with this id in a node collection.
NodeIn(collection, id) == collection[FindIndex(collection, id)]

\* C25: processConceptNode on an absent concept stores a node with
\* importance exactly 1 whose connectedPages is exactly the current page id;
\* on a present concept it raises the importance by exactly 0.5 and appends
\* the current page id, duplicate or not, and leaves id, type and label as
\* they were.
C25_ConceptUpsert ==
  [][\A p \in Procs :
       LET id == loc[p].node.id
           pageNodeId == PageIdOf[loc[p].cap.url]
       IN /\ (pc[p] = "nodeWrite" /\ pc'[p] # "nodeWrite"
                /\ loc[p].node.type = "concept")
             => /\ FindIndex(nodes, id) = 0
                /\ FindIndex(nodes', id) # 0
                /\ NodeIn(nodes', id).importance = NewConceptImportance
                /\ NodeIn(nodes', id).connectedPages = <<pageNodeId>>
                /\ NodeIn(nodes', id).type = "concept"
          /\ (pc[p] = "updWrite" /\ pc'[p] # "updWrite")
             => /\ FindIndex(nodes, id) # 0
                /\ NodeIn(nodes', id).importance
                     = NodeIn(nodes, id).importance + RepeatStep
                /\ NodeIn(nodes', id).connectedPages
                     = Append(NodeIn(nodes, id).connectedPages, pageNodeId)
                /\ NodeIn(nodes', id).id = NodeIn(nodes, id).id
                /\ NodeIn(nodes', id).type = NodeIn(nodes, id).type
                /\ NodeIn(nodes', id).label = NodeIn(nodes, id).label]_vars

\* C25 witness: one page mentioned a concept node twice: the node was
\* created with importance 1, then raised to 1.5, and holds the page id
\* twice.
C25_Witness ==
  \E i \in 1..Len(nodes) :
    /\ nodes[i].type = "concept"
    /\ nodes[i].importance = NewConceptImportance + RepeatStep
    /\ Len(nodes[i].connectedPages) = 2
    /\ nodes[i].connectedPages[1] = nodes[i].connectedPages[2]

\* ------------------------------------------------------------------------
\* SpecFail: StorageManager operations whose chrome.storage calls may be
\* rejected.  Each operation runs to completion; readOk and writeOk say
\* whether its get and its set resolve.
\* ------------------------------------------------------------------------

\* DEFAULT_SETTINGS: minContentLength and captureFrequency.
DefaultMinContentLength == 500
DefaultCaptureFrequency == 2000

DefaultSettings ==
  [minContentLength |-> DefaultMinContentLength,
   captureFrequency |-> DefaultCaptureFrequency]

\* The Partial<ExtensionSettings> a caller passes to updateSettings.
SettingsPatches ==
  { [f \in {"minContentLength"} |-> 200],
    [f \in {"captureFrequency"} |-> 5000] }

\* { ...a, ...b }
Spread(a, b) ==
  [f \in DOMAIN a \cup DOMAIN b |-> IF f \in DOMAIN b THEN b[f] ELSE a[f]]

\* What the operations of this specification are applied to.
FailItems ==
  {MakeProcessedContent(Capture(page, now), <<"AI">>) : page \in EvictPages}
FailNodes ==
  {MakePageNode(Capture(page, now), <<"AI">>) :
     page \in {q \in EvictPages : q.url = "http://c.org/z"}}
    \cup {MakeConceptNode("AI", PageIdOf["http://c.org/z"])}
FailEdges ==
  {MakeEdge(PageIdOf[page.url], ConceptIdOf["AI"]) : page \in EvictPages}

\* The operation returned value after so many chrome.storage calls, one of
\* which was rejected or none.
OpReturns(op, args, rejected, calls, value) ==
  /\ fn' = op
  /\ fnArgs' = args
  /\ fnRes' = <<[raised |-> FALSE, rejected |-> rejected, calls |-> calls,
                 value |-> value]>>
  /\ UNCHANGED <<idVars, queueVars, clientVars, keyVars, hung, now, procVars,
                 histVars, lastCleanup>>

\* storeProcessedContent(item)
FailStoreProcessedContent(item, readOk, writeOk) ==
  /\ content' = IF readOk /\ writeOk
                THEN StoreProcessedContent(content, item) ELSE content
  /\ OpReturns("storeProcessedContent", <<item>>, ~(readOk /\ writeOk),
               IF readOk THEN 2 ELSE 1, <<>>)
  /\ UNCHANGED <<nodes, edges, settings>>

\* findSimilarContent(url): the item or null (<<>>)
FailFindSimilarContent(url, readOk) ==
  /\ OpReturns("findSimilarContent", <<url>>, ~readOk, 1,
               IF readOk
               THEN SelectSeq(content, LAMBDA c : c.url = url)
               ELSE <<>>)
  /\ UNCHANGED <<content, nodes, edges, settings>>

\* addGraphNode(node)
FailAddGraphNode(node, readOk, writeOk) ==
  /\ nodes' = IF readOk /\ writeOk THEN AddGraphNode(nodes, node) ELSE nodes
  /\ OpReturns("addGraphNode", <<node>>, ~(readOk /\ writeOk),
               IF readOk THEN 2 ELSE 1, <<>>)
  /\ UNCHANGED <<content, edges, settings>>

\* getGraphNode(id): the node or null (<<>>)
FailGetGraphNode(id, readOk) ==
  /\ OpReturns("getGraphNode", <<id>>, ~readOk, 1,
               IF readOk THEN SelectSeq(nodes, LAMBDA n : n.id = id) ELSE <<>>)
  /\ UNCHANGED <<content, nodes, edges, settings>>

\* updateGraphNode(node): set is called when the id is present
FailUpdateGraphNode(node, readOk, writeOk) ==
  LET update == UpdateGraphNode(nodes, node)
  IN /\ nodes' = IF readOk /\ update.write /\ writeOk
                 THEN update.value ELSE nodes
     /\ OpReturns("updateGraphNode", <<node>>,
                  ~readOk \/ (update.write /\ ~writeOk),
                  IF readOk /\ update.write THEN 2 ELSE 1, <<>>)
     /\ UNCHANGED <<content, edges, settings>>

\* addGraphEdge(edge): set is called when the id is absent
FailAddGraphEdge(edge, readOk, writeOk) ==
  LET add == AddGraphEdge(edges, edge)
  IN /\ edges' = IF readOk /\ add.write /\ writeOk THEN add.value ELSE edges
     /\ OpReturns("addGraphEdge", <<edge>>,
                  ~readOk \/ (add.write /\ ~writeOk),
                  IF readOk /\ add.write THEN 2 ELSE 1, <<>>)
     /\ UNCHANGED <<content, nodes, settings>>

\* getGraphData(): both gets are started at once; one rejection gives the
\* empty graph
FailGetGraphData(nodesOk, edgesOk) ==
  /\ OpReturns("getGraphData", <<>>, ~(nodesOk /\ edgesOk), 2,
               IF nodesOk /\ edgesOk THEN <<nodes, edges>>
               ELSE <<<<>>, <<>>>>)
  /\ UNCHANGED <<content, nodes, edges, settings>>

\* getSettings(): the defaults overlaid with what is stored
GetSettings(readOk) ==
  IF readOk /\ settings # <<>> THEN Spread(DefaultSettings, settings[1])
  ELSE DefaultSettings

FailGetSettings(readOk) ==
  /\ OpReturns("getSettings", <<>>, ~readOk, 1, <<GetSettings(readOk)>>)
  /\ UNCHANGED <<content, nodes, edges, settings>>

\* updateSettings(patch): getSettings catches its own rejection and returns
\* the defaults, and updateSettings goes on to set
FailUpdateSettings(patch, readOk, writeOk) ==
  /\ settings' = IF writeOk THEN <<Spread(GetSettings(readOk), patch)>>
                 ELSE settings
  /\ OpReturns("updateSettings", <<patch>>, ~(readOk /\ writeOk), 2, <<>>)
  /\ UNCHANGED <<content, nodes, edges>>

InitFail ==
  /\ now = 1
  /\ InitStore
  /\ InitProcs
  /\ InitHist
  /\ InitIds
  /\ InitQueue
  /\ InitUnits

NextFail ==
  \E readOk \in BOOLEAN, writeOk \in BOOLEAN :
    \/ \E item \in FailItems : FailStoreProcessedContent(item, readOk, writeOk)
    \/ \E item \in FailItems : writeOk /\ FailFindSimilarContent(item.url, readOk)
    \/ \E node \in FailNodes : FailAddGraphNode(node, readOk, writeOk)
    \/ \E node \in FailNodes : writeOk /\ FailGetGraphNode(node.id, readOk)
    \/ \E node \in FailNodes :
         FailUpdateGraphNode(UpdatedConceptNode(node, PageIdOf["http://c.org/z"]),
                             readOk, writeOk)
    \/ \E edge \in FailEdges : FailAddGraphEdge(edge, readOk, writeOk)
    \/ FailGetGraphData(readOk, writeOk)
    \/ writeOk /\ FailGetSettings(readOk)
    \/ \E patch \in SettingsPatches : FailUpdateSettings(patch, readOk, writeOk)

SpecFail == InitFail /\ [][NextFail]_vars

ReadOps ==
  {"findSimilarContent", "getGraphNode", "getGraphData", "getSettings"}

\* The default a read operation returns.
DefaultOf(op) ==
  CASE op = "getGraphData" -> <<<<>>, <<>>>>
    [] op = "getSettings" -> <<DefaultSettings>>
    [] OTHER -> <<>>

\* C26: a StorageManager operation one of whose chrome.storage calls is
\* rejected completes without raising; a read operation returns its default;
\* a write operation leaves the persisted state unchanged; no call is
\* attempted a second time.
C26_StorageFailureHandling ==
  [][(fnRes' # <<>> /\ fnRes'[1].rejected)
       => /\ ~fnRes'[1].raised
          /\ fn' \in ReadOps => fnRes'[1].value = DefaultOf(fn')
          /\ UNCHANGED <<storeVars, settings>>
          /\ fnRes'[1].calls <= 2]_vars

\* C29: while no clearOldData pass and no clearAllData has run, whatever the
\* interleaving of the ingestions, every stored edge's source is the id of a
\* stored page node and its target is the id of a stored concept node.
C29_ReferentialIntegrity ==
  evictions = 0 =>
    \A i \in 1..Len(edges) :
      /\ \E j \in 1..Len(nodes) :
           nodes[j].id = edges[i].source /\ nodes[j].type = "page"
      /\ \E j \in 1..Len(nodes) :
           nodes[j].id = edges[i].target /\ nodes[j].type = "concept"

\* The URLs of the archived records and of the stored page nodes.
ContentUrls == {content[i].url : i \in 1..Len(content)}
PageNodeUrls == {nodes[j].url : j \in {k \in 1..Len(nodes) : nodes[k].type = "page"}}

\* C30: whenever no ingestion is in progress, the archived records and the
\* stored page nodes have the same URLs, and each record's nodeId is the id
\* of the page node with the record's URL, after any sequence of ingestions
\* and clearOldData passes.
C30_ArchiveAndGraphAgree ==
  AllIdle =>
    /\ ContentUrls = PageNodeUrls
    /\ \A i \in 1..Len(content) :
         \E j \in 1..Len(nodes) :
           /\ nodes[j].type = "page"
           /\ nodes[j].url = content[i].url
           /\ nodes[j].id = content[i].nodeId

\* ------------------------------------------------------------------------
\* SpecHung: the queue when the service leaves some requests unanswered
\* ------------------------------------------------------------------------

\* Any of the calls may be one whose fetch is never answered.
InitHung ==
  /\ now = 1
  /\ InitStore
  /\ InitProcs
  /\ InitHist
  /\ InitIds
  /\ InitQueue
  /\ InitClient
  /\ InitFn
  /\ InitKey
  /\ settings = <<>>
  /\ hung \in SUBSET Calls

\* fetch settles when the service answers or the network fails; callGeminiAPI
\* passes no signal and arms no timer, so nothing else ends the await.
FetchAnswered(w, outcome) ==
  /\ worker[w].task \notin hung
  /\ FetchSettles(w, outcome)

NextHung ==
  \/ \E c \in Calls : c = NextCall /\ CallGeminiApi(c)
  \/ \E w \in Calls : TimerFires(w)
  \/ \E w \in Calls : \E o \in {"network_error", "http_error", "ok"} :
       FetchAnswered(w, o)
  \/ \E w \in Calls : \E o \in {"text", "invalid"} : JsonSettles(w, o)
  \/ \E w \in Calls : TaskReturns(w)
  \/ ClockTick

HungFairness ==
  /\ WF_vars(\E c \in Calls : c = NextCall /\ CallGeminiApi(c))
  /\ WF_vars(\E w \in Calls : TimerFires(w))
  /\ WF_vars(\E w \in Calls : \E o \in {"network_error", "http_error", "ok"} :
               FetchAnswered(w, o))
  /\ WF_vars(\E w \in Calls : \E o \in {"text", "invalid"} : JsonSettles(w, o))
  /\ WF_vars(\E w \in Calls : TaskReturns(w))
  /\ WF_vars(ClockTick)

SpecHung == InitHung /\ [][NextHung]_vars /\ HungFairness

\* C27: a request that the service never answers is abandoned after the
\* request timeout, so every call that is queued is settled in time, the
\* hung one and those queued behind it.
C27_HungRequestAbandoned ==
  \A c \in Calls : (call[c] = "queued") ~> Settled(c)

====
